---- MODULE Spec2Model ----
(***************************************************************************)
(* Face-recognition API: the in-memory gallery of known faces, the Store   *)
(* (PostgreSQL table) behind it, and the HTTP handlers that enroll,        *)
(* delete, refresh and recognize.  The repository holds three variants of  *)
(* the API; `impl` says which one a behaviour runs:                        *)
(*   "app"  : src/app/main.py  (with src/app/database.py, face_utils.py)   *)
(*   "api"  : src/api.py                                                   *)
(*   "main" : src/main.py      (with src/app/database.py)                  *)
(* All handlers are `async def` coroutines of one event loop: a handler    *)
(* runs without interruption from one `await` to the next.  `running` is   *)
(* the client whose handler holds the event loop between two steps.        *)
(* Embeddings are one-dimensional: an embedding is an integer, in tenths,  *)
(* and the Euclidean distance of two of them is the absolute difference.   *)
(***************************************************************************)
EXTENDS Integers, Sequences, FiniteSets, TLC

VARIABLES impl, phase, store, nextId, pending, registered_count, error_count,
          reload_count, known_face_encodings, known_face_names, known_faces,
          running, cl, loader, cleaner

vars == <<impl, phase, store, nextId, pending, registered_count, error_count,
          reload_count, known_face_encodings, known_face_names, known_faces,
          running, cl, loader, cleaner>>

\* loader: the call of load_image_with_retry of src/image_utils.py in progress;
\* cleaner: the call of cleanup_orphaned_photos of src/app/photo_cleaner.py.
\* Neither is called by the three API programs.
toolVars == <<loader, cleaner>>

NoCall == [pc |-> "none"]

ToolsIdle == loader = NoCall /\ cleaner = NoCall

(***************************************************************************)
(* Bounds of the model.                                                    *)
(***************************************************************************)
NumClients == 2
MaxId == 3
MaxPhotos == 1
MaxRows == 2
MaxBatch == 2

Clients == 1..NumClients
Names == {"alice", "bob"}
Embeddings == {0, 6, 7}

(***************************************************************************)
(* Program constants and sentinels.                                        *)
(***************************************************************************)
FACE_RECOGNITION_TOLERANCE == 6
NoFace == -1
BadImage == -2
Null == -1
NoDistance == -1
NoId == 0
NoReferenceName == "No hay rostros de referencia cargados en memoria."
NoFaceName == "No Rostro Detectado"
UnknownName == "Desconocido"
NoName == ""

Images == Embeddings \cup {NoFace, BadImage}

(***************************************************************************)
(* face_utils.py: distances, nearest match, duplicate guard.               *)
(***************************************************************************)
Abs(x) == IF x < 0 THEN -x ELSE x

\* every distance twice too long
face_distance_doubled(encodings, e) ==
    [i \in 1..Len(encodings) |-> 2 * Abs(encodings[i] - e)]

\* every distance one tenth too long
face_distance_shifted(encodings, e) ==
    [i \in 1..Len(encodings) |-> Abs(encodings[i] - e) + 1]

face_distance(encodings, e) ==
    [i \in 1..Len(encodings) |-> Abs(encodings[i] - e)]

\* the index of the first entry, whatever the distances
argmin_first(d) == 1

\* numpy.argmin: the first index holding the minimum
argmin(d) ==
    CHOOSE i \in 1..Len(d) :
        /\ \A j \in 1..Len(d) : d[i] <= d[j]
        /\ \A j \in 1..(i - 1) : d[j] > d[i]

\* the comparison with the tolerance, turned around
WithinTolerance_inverted(distance) == distance >= FACE_RECOGNITION_TOLERANCE

\* a face exactly at the tolerance counted as a different one
WithinTolerance_strict(distance) == distance < FACE_RECOGNITION_TOLERANCE

\* best_match_distance <= tolerance
WithinTolerance(distance) == distance <= FACE_RECOGNITION_TOLERANCE

recognize_face(test_embedding, encodings, names) ==
    IF encodings = <<>>
    THEN [name |-> NoReferenceName, is_known |-> FALSE, distance |-> NoDistance]
    ELSE LET d == face_distance(encodings, test_embedding)
             best == argmin(d)
         IN  IF WithinTolerance(d[best])
             THEN [name |-> names[best], is_known |-> TRUE, distance |-> d[best]]
             ELSE [name |-> UnknownName, is_known |-> FALSE, distance |-> d[best]]

\* a guard that never finds a duplicate
is_face_duplicate_never(new_embedding, encodings, names) ==
    [is_duplicate |-> FALSE, name |-> NoName, distance |-> NoDistance]

is_face_duplicate(new_embedding, encodings, names) ==
    IF encodings = <<>>
    THEN [is_duplicate |-> FALSE, name |-> NoName, distance |-> NoDistance]
    ELSE LET d == face_distance(encodings, new_embedding)
             best == argmin(d)
         IN  IF WithinTolerance(d[best])
             THEN [is_duplicate |-> TRUE, name |-> names[best], distance |-> d[best]]
             ELSE [is_duplicate |-> FALSE, name |-> NoName, distance |-> NoDistance]

(***************************************************************************)
(* The Store: the rows of the table, in scan order.                        *)
(***************************************************************************)
Row(id, nombre, embedding) == [id |-> id, nombre |-> nombre, embedding |-> embedding]

IndexOfName(rows, nombre) ==
    IF \E i \in 1..Len(rows) : rows[i].nombre = nombre
    THEN CHOOSE i \in 1..Len(rows) : rows[i].nombre = nombre
    ELSE 0

IndexOfId(rows, id) ==
    IF \E i \in 1..Len(rows) : rows[i].id = id
    THEN CHOOSE i \in 1..Len(rows) : rows[i].id = id
    ELSE 0

RemoveAt(rows, i) == SubSeq(rows, 1, i - 1) \o SubSeq(rows, i + 1, Len(rows))

\* UPDATE of row i: the new row version keeps its place in the scan order or
\* goes to the end of the heap (`moved`); a SELECT without ORDER BY promises
\* neither.
UpdateAt(rows, i, embedding, moved) ==
    LET r == Row(rows[i].id, rows[i].nombre, embedding)
    IN  IF moved THEN Append(RemoveAt(rows, i), r)
        ELSE [rows EXCEPT ![i] = r]

\* an upsert that never looks the name up
save_face_always_insert(rows, id, nombre, embedding, moved) ==
    Append(rows, Row(id, nombre, embedding))

\* save_face_to_db / the INSERT-or-UPDATE of _register_face: the new rows
save_face_to_db(rows, id, nombre, embedding, moved) ==
    LET i == IndexOfName(rows, nombre)
    IN  IF i # 0 THEN UpdateAt(rows, i, embedding, moved)
        ELSE Append(rows, Row(id, nombre, embedding))

\* the id of a row that would be inserted, whatever the Store holds
saved_person_id_fresh(rows, id, nombre) == id

\* the id save_face_to_db returns
saved_person_id(rows, id, nombre) ==
    LET i == IndexOfName(rows, nombre)
    IN  IF i # 0 THEN rows[i].id ELSE id

delete_face_from_db(rows, id) ==
    LET i == IndexOfId(rows, id)
    IN  IF i # 0 THEN RemoveAt(rows, i) ELSE rows

delete_by_name(rows, nombre) ==
    LET i == IndexOfName(rows, nombre)
    IN  IF i # 0 THEN RemoveAt(rows, i) ELSE rows

\* a SELECT without the WHERE clause
HasEmbedding_any(r) == TRUE

HasEmbedding(r) == r.embedding # Null

\* SELECT nombre, embedding ... WHERE embedding IS NOT NULL
load_known_faces_from_db(rows) ==
    LET sel == SelectSeq(rows, HasEmbedding)
    IN  [encodings |-> [i \in 1..Len(sel) |-> sel[i].embedding],
         names     |-> [i \in 1..Len(sel) |-> sel[i].nombre]]

(***************************************************************************)
(* Clients and their requests.  cl[p].pc is the position of p's handler:   *)
(* "idle" (no request), "await_read" (suspended in `await file.read()`),   *)
(* a position between two Store calls (the handler holds the event loop),  *)
(* or "done" (the response is in cl[p].resp).                              *)
(***************************************************************************)
NoResp == [status |-> 0, name |-> NoName, is_known |-> FALSE,
           distance |-> NoDistance, person_id |-> NoId, count |-> 0]

Idle == [pc |-> "idle", op |-> "none", nombre |-> NoName, image |-> NoFace,
         person_id |-> NoId, err |-> "none", wrote |-> FALSE, resp |-> NoResp]

Response(status, name, distance, person_id, count) ==
    [status |-> status, name |-> name, is_known |-> FALSE, distance |-> distance,
     person_id |-> person_id, count |-> count]

\* a result that drops the is_known flag
RecognitionResult_unknown(name, is_known, distance) ==
    Response(200, name, distance, NoId, 0)

\* RecognitionResult(name=..., is_known=..., distance=...), answered with 200
RecognitionResult(name, is_known, distance) ==
    [Response(200, name, distance, NoId, 0) EXCEPT !.is_known = is_known]

HTTPError(status) == Response(status, NoName, NoDistance, NoId, 0)

\* handlers run as threads: any handler starts or resumes at any time
EventLoopFree_threads == TRUE

\* One event loop runs every handler: a handler starts, or resumes after an
\* await, only when no other handler is between two of its steps and the
\* response of the handler that returned last has been sent.
EventLoopFree == running = 0 /\ \A q \in Clients : cl[q].pc # "done"

InFlight(p) == cl[p].pc \notin {"idle", "await_read", "done", "served"}

Request(p, op, nombre, image, pc) ==
    [Idle EXCEPT !.pc = pc, !.op = op, !.nombre = nombre, !.image = image]

\* the handler of p returns or raises: the response is recorded
Return(p, resp, err) ==
    cl' = [cl EXCEPT ![p].pc = "done", ![p].resp = resp, ![p].err = err]

\* the same, for a handler that returns in the step that reads its request
Finish(p, req, resp, err) ==
    cl' = [cl EXCEPT ![p] = [req EXCEPT !.pc = "done", !.resp = resp, !.err = err]]

Gallery == [encodings |-> known_face_encodings, names |-> known_face_names]

\* a load whose result is dropped
Publish_nothing(g) == UNCHANGED <<known_face_encodings, known_face_names>>

\* a load that replaces the names and keeps the old encodings
Publish_names_only(g) ==
    /\ known_face_names' = g.names
    /\ UNCHANGED known_face_encodings

Publish(g) ==
    /\ known_face_encodings' = g.encodings
    /\ known_face_names' = g.names

cacheVars == <<known_face_encodings, known_face_names, known_faces>>
storeVars == <<store, nextId>>
\* reload_count: the calls of the gallery load that startup_event made after
\* its first one
batchVars == <<pending, registered_count, error_count, reload_count>>

\* INSERT needs a fresh id; the model has MaxId of them
CanSave(nombre) == IndexOfName(store, nombre) # 0 \/ nextId <= MaxId

SaveFace(nombre, embedding, moved) ==
    /\ store' = save_face_to_db(store, nextId, nombre, embedding, moved)
    /\ nextId' = IF IndexOfName(store, nombre) # 0 THEN nextId ELSE nextId + 1

\* `moved` is a choice only where an UPDATE can move a row
Moves(nombre) ==
    LET i == IndexOfName(store, nombre)
    IN  IF i # 0 /\ i < Len(store) THEN BOOLEAN ELSE {FALSE}

(***************************************************************************)
(* src/app/main.py: startup_event.  The first load raises on failure and   *)
(* the server does not start; then one step per reference photo; then the  *)
(* closing reload, whose failure is only logged.                           *)
(***************************************************************************)
Unreadable == -3
Photo(nombre, image) == [nombre |-> nombre, image |-> image]
Photos == {Photo(n, i) : n \in Names, i \in Images \cup {Unreadable}}

app_startup_load ==
    /\ impl = "app" /\ phase = "startup"
    /\ \E ok \in BOOLEAN :
         IF ok
         THEN /\ Publish(load_known_faces_from_db(store))
              /\ phase' = "batch"
         ELSE /\ phase' = "crashed"
              /\ UNCHANGED <<known_face_encodings, known_face_names>>
    /\ UNCHANGED <<toolVars, impl, storeVars, batchVars, known_faces, running, cl>>

\* one iteration of the loop over IMAGE_FOLDER.glob('*')
app_startup_photo ==
    /\ impl = "app" /\ phase = "batch" /\ pending # <<>>
    /\ LET f == Head(pending)
           dup == is_face_duplicate(f.image, known_face_encodings, known_face_names)
           skipped == /\ error_count' = error_count + 1
                      /\ UNCHANGED <<storeVars, registered_count>>
       IN  /\ pending' = Tail(pending)
           /\ IF f.image = Unreadable THEN skipped
              ELSE IF f.nombre \in {known_face_names[i] : i \in 1..Len(known_face_names)}
              THEN UNCHANGED <<storeVars, registered_count, error_count>>
              ELSE IF f.image \in {BadImage, NoFace} THEN skipped
              ELSE IF dup.is_duplicate THEN skipped
              ELSE \E ok \in BOOLEAN :
                     IF ok /\ CanSave(f.nombre)
                     THEN \E moved \in Moves(f.nombre) :
                            /\ SaveFace(f.nombre, f.image, moved)
                            /\ registered_count' = registered_count + 1
                            /\ UNCHANGED error_count
                     ELSE skipped
    /\ UNCHANGED <<toolVars, impl, phase, reload_count, cacheVars, running, cl>>

app_startup_reload ==
    /\ impl = "app" /\ phase = "batch" /\ pending = <<>>
    /\ IF registered_count > 0 \/ error_count > 0
       THEN /\ reload_count' = reload_count + 1
            /\ \E ok \in BOOLEAN :
                 IF ok THEN Publish(load_known_faces_from_db(store))
                 ELSE UNCHANGED <<known_face_encodings, known_face_names>>
       ELSE UNCHANGED <<reload_count, known_face_encodings, known_face_names>>
    /\ phase' = "started"
    /\ UNCHANGED <<toolVars, impl, storeVars, pending, registered_count, error_count,
                   known_faces, running, cl>>

\* startup_event has returned: its locals are gone and requests are served
startup_complete ==
    /\ impl \in {"app", "api"} /\ phase = "started"
    /\ phase' = "serving"
    /\ registered_count' = 0 /\ error_count' = 0 /\ reload_count' = 0
    /\ UNCHANGED <<toolVars, impl, storeVars, pending, cacheVars, running, cl>>

(***************************************************************************)
(* src/app/main.py: register_face.                                         *)
(***************************************************************************)
app_register_face_begin(p) ==
    /\ impl = "app" /\ phase = "serving" /\ EventLoopFree
    /\ cl[p].pc = "idle"
    /\ cl' = [cl EXCEPT ![p] = Request(p, "register", NoName, NoFace, "await_read")]
    /\ UNCHANGED <<toolVars, impl, phase, storeVars, batchVars, cacheVars, running>>

\* process_image, extract_face_embedding, is_face_duplicate on the cache.
\* The 409 raised for a duplicate is raised inside the try whose
\* `except Exception` turns it into a 500.
app_register_face_check(p) ==
    /\ impl = "app" /\ phase = "serving" /\ EventLoopFree
    /\ cl[p].pc = "await_read" /\ cl[p].op = "register"
    /\ \E n \in Names, img \in Images :
         LET dup == is_face_duplicate(img, known_face_encodings, known_face_names)
             req == Request(p, "register", n, img, "checked")
         IN  IF img \in {BadImage, NoFace}
             THEN /\ Finish(p, req, HTTPError(400), "none")
                  /\ UNCHANGED running
             ELSE IF dup.is_duplicate
             THEN /\ Finish(p, req, Response(500, dup.name, dup.distance, NoId, 0), "none")
                  /\ UNCHANGED running
             ELSE /\ cl' = [cl EXCEPT ![p] = req]
                  /\ running' = p
    /\ UNCHANGED <<toolVars, impl, phase, storeVars, batchVars, cacheVars>>

app_register_face_save(p) ==
    /\ impl = "app" /\ running = p /\ cl[p].pc = "checked"
    /\ \E ok \in BOOLEAN :
         IF ok /\ CanSave(cl[p].nombre)
         THEN \E moved \in Moves(cl[p].nombre) :
                /\ SaveFace(cl[p].nombre, cl[p].image, moved)
                /\ cl' = [cl EXCEPT ![p].pc = "saved", ![p].wrote = TRUE,
                            ![p].person_id = saved_person_id(store, nextId, cl[p].nombre)]
                /\ UNCHANGED running
         ELSE /\ Return(p, HTTPError(500), "write")
              /\ running' = 0
              /\ UNCHANGED storeVars
    /\ UNCHANGED <<toolVars, impl, phase, batchVars, cacheVars>>

app_register_face_reload(p) ==
    /\ impl = "app" /\ running = p /\ cl[p].pc = "saved"
    /\ \E ok \in BOOLEAN :
         IF ok
         THEN /\ Publish(load_known_faces_from_db(store))
              /\ Return(p, Response(200, cl[p].nombre, NoDistance, cl[p].person_id, 0), "none")
         ELSE /\ Return(p, HTTPError(500), "load")
              /\ UNCHANGED <<known_face_encodings, known_face_names>>
    /\ running' = 0
    /\ UNCHANGED <<toolVars, impl, phase, storeVars, batchVars, known_faces>>

(***************************************************************************)
(* src/app/main.py: recognize_face, list_known_faces_endpoint,             *)
(* get_status_endpoint.                                                    *)
(***************************************************************************)
app_recognize_face_begin(p) ==
    /\ impl = "app" /\ phase = "serving" /\ EventLoopFree
    /\ cl[p].pc = "idle"
    /\ cl' = [cl EXCEPT ![p] = Request(p, "recognize", NoName, NoFace, "await_read")]
    /\ UNCHANGED <<toolVars, impl, phase, storeVars, batchVars, cacheVars, running>>

app_recognize_face_match(p) ==
    /\ impl = "app" /\ phase = "serving" /\ EventLoopFree
    /\ cl[p].pc = "await_read" /\ cl[p].op = "recognize"
    /\ \E img \in Images :
         LET r == recognize_face(img, known_face_encodings, known_face_names)
             req == Request(p, "recognize", NoName, img, "done")
         IN  IF img = BadImage
             THEN Finish(p, req, HTTPError(400), "none")
             ELSE IF img = NoFace
             THEN Finish(p, req, RecognitionResult(NoFaceName, FALSE, NoDistance), "none")
             ELSE IF known_face_encodings = <<>>
             THEN Finish(p, req, RecognitionResult(NoReferenceName, FALSE, NoDistance), "none")
             ELSE Finish(p, req, RecognitionResult(r.name, r.is_known, r.distance), "none")
    /\ UNCHANGED <<toolVars, impl, phase, storeVars, batchVars, cacheVars, running>>

app_list_known_faces_endpoint(p) ==
    /\ impl = "app" /\ phase = "serving" /\ EventLoopFree
    /\ cl[p].pc = "idle"
    /\ Finish(p, Request(p, "list", NoName, NoFace, "done"),
              Response(200, NoName, NoDistance, NoId, Len(known_face_names)), "none")
    /\ UNCHANGED <<toolVars, impl, phase, storeVars, batchVars, cacheVars, running>>

\* a status that empties the gallery it counts
app_get_status_endpoint_clearing(p) ==
    /\ impl = "app" /\ phase = "serving" /\ EventLoopFree
    /\ cl[p].pc = "idle"
    /\ Finish(p, Request(p, "status", NoName, NoFace, "done"),
              Response(200, "Conectado", NoDistance, NoId, Len(known_face_encodings)),
              "none")
    /\ known_face_encodings' = <<>>
    /\ known_face_names' = <<>>
    /\ UNCHANGED <<toolVars, impl, phase, storeVars, batchVars, known_faces, running>>

\* get_db_status never raises: a Store failure is reported as 'Desconectado'
app_get_status_endpoint(p) ==
    /\ impl = "app" /\ phase = "serving" /\ EventLoopFree
    /\ cl[p].pc = "idle"
    /\ \E ok \in BOOLEAN :
         Finish(p, Request(p, "status", NoName, NoFace, "done"),
                Response(200, IF ok THEN "Conectado" ELSE "Desconectado",
                         NoDistance, NoId, Len(known_face_encodings)), "none")
    /\ UNCHANGED <<toolVars, impl, phase, storeVars, batchVars, cacheVars, running>>

(***************************************************************************)
(* src/app/main.py: delete_face_by_name, refresh_db_faces_endpoint.        *)
(***************************************************************************)
\* SELECT id ... WHERE nombre: 404 when there is no row
app_delete_face_by_name_lookup(p) ==
    /\ impl = "app" /\ phase = "serving" /\ EventLoopFree
    /\ cl[p].pc = "idle"
    /\ \E n \in Names, ok \in BOOLEAN :
         LET i == IndexOfName(store, n)
             req == Request(p, "delete", n, NoFace, "found")
         IN  IF ~ok
             THEN /\ Finish(p, req, HTTPError(500), "connect")
                  /\ UNCHANGED running
             ELSE IF i = 0
             THEN /\ Finish(p, req, HTTPError(404), "none")
                  /\ UNCHANGED running
             ELSE /\ cl' = [cl EXCEPT ![p] = [req EXCEPT !.person_id = store[i].id]]
                  /\ running' = p
    /\ UNCHANGED <<toolVars, impl, phase, storeVars, batchVars, cacheVars>>

app_delete_face_by_name_delete(p) ==
    /\ impl = "app" /\ running = p /\ cl[p].pc = "found"
    /\ \E ok \in BOOLEAN :
         IF ok /\ IndexOfId(store, cl[p].person_id) # 0
         THEN /\ store' = delete_face_from_db(store, cl[p].person_id)
              /\ cl' = [cl EXCEPT ![p].pc = "deleted", ![p].wrote = TRUE]
              /\ UNCHANGED running
         ELSE /\ Return(p, HTTPError(500), IF ok THEN "none" ELSE "write")
              /\ running' = 0
              /\ UNCHANGED store
    /\ UNCHANGED <<toolVars, impl, phase, nextId, batchVars, cacheVars>>

\* the reload after the DELETE: its failure is logged as a warning and the
\* handler still returns the success message
app_delete_face_by_name_reload(p) ==
    /\ impl = "app" /\ running = p /\ cl[p].pc = "deleted"
    /\ \E ok \in BOOLEAN :
         IF ok
         THEN /\ Publish(load_known_faces_from_db(store))
              /\ Return(p, Response(200, cl[p].nombre, NoDistance, NoId, 0), "none")
         ELSE /\ Return(p, Response(200, cl[p].nombre, NoDistance, NoId, 0), "load")
              /\ UNCHANGED <<known_face_encodings, known_face_names>>
    /\ running' = 0
    /\ UNCHANGED <<toolVars, impl, phase, storeVars, batchVars, known_faces>>

app_refresh_db_faces_endpoint(p) ==
    /\ impl = "app" /\ phase = "serving" /\ EventLoopFree
    /\ cl[p].pc = "idle"
    /\ \E ok \in BOOLEAN :
         LET g == load_known_faces_from_db(store)
             req == Request(p, "refresh", NoName, NoFace, "done")
         IN  IF ok
             THEN /\ Publish(g)
                  /\ Finish(p, req, Response(200, NoName, NoDistance, NoId, Len(g.names)), "none")
             ELSE /\ Finish(p, req, HTTPError(500), "load")
                  /\ UNCHANGED <<known_face_encodings, known_face_names>>
    /\ UNCHANGED <<toolVars, impl, phase, storeVars, batchVars, known_faces, running>>

\* the client takes its response
respond(p) ==
    /\ cl[p].pc = "done"
    /\ cl' = [cl EXCEPT ![p] = Idle]
    /\ UNCHANGED <<toolVars, impl, phase, storeVars, batchVars, cacheVars, running>>

(***************************************************************************)
(* src/api.py.  load_known_faces_from_db empties both lists before it      *)
(* connects, so a load that fails leaves the gallery empty.  _register_face*)
(* makes no duplicate check and writes a NULL embedding when the image     *)
(* holds no face.                                                          *)
(***************************************************************************)
EmptyGallery == [encodings |-> <<>>, names |-> <<>>]

\* the gallery after api.py's load_known_faces_from_db, `ok` saying whether
\* the Store could be read
api_load_known_faces_from_db(rows, ok, old) ==
    IF ok THEN load_known_faces_from_db(rows) ELSE EmptyGallery

\* the embedding _register_face stores: None when no face was located
new_embedding_list(image) == IF image = NoFace THEN Null ELSE image

\* compare_faces, face_distance and argmin of api.py's recognize_face
api_recognize(test_face_encoding, encodings, names) ==
    LET d == face_distance(encodings, test_face_encoding)
        matches == [i \in 1..Len(d) |-> d[i] <= FACE_RECOGNITION_TOLERANCE]
        best == argmin(d)
    IN  IF matches[best]
        THEN [name |-> names[best], is_known |-> TRUE, distance |-> d[best]]
        ELSE [name |-> UnknownName, is_known |-> FALSE, distance |-> d[best]]

api_startup_load ==
    /\ impl = "api" /\ phase = "startup"
    /\ \E ok \in BOOLEAN :
         /\ Publish(api_load_known_faces_from_db(store, ok, Gallery))
         /\ phase' = IF ok THEN "batch" ELSE "crashed"
    /\ UNCHANGED <<toolVars, impl, storeVars, batchVars, known_faces, running, cl>>

\* one iteration of the loop over os.listdir: `await _register_face(...)`
\* inside try/except, which never suspends
api_startup_photo ==
    /\ impl = "api" /\ phase = "batch" /\ pending # <<>>
    /\ LET f == Head(pending)
           nothing == UNCHANGED <<storeVars, reload_count,
                                  known_face_encodings, known_face_names>>
       IN  /\ pending' = Tail(pending)
           /\ IF f.image \in {Unreadable, BadImage}
              THEN nothing
              ELSE \E wrote \in BOOLEAN, ok \in BOOLEAN :
                     IF wrote /\ CanSave(f.nombre)
                     THEN \E moved \in Moves(f.nombre) :
                            /\ SaveFace(f.nombre, new_embedding_list(f.image), moved)
                            /\ Publish(api_load_known_faces_from_db(store', ok, Gallery))
                            /\ reload_count' = reload_count + 1
                     ELSE nothing
    /\ UNCHANGED <<toolVars, impl, phase, registered_count, error_count, known_faces, running, cl>>

api_startup_done ==
    /\ impl = "api" /\ phase = "batch" /\ pending = <<>>
    /\ phase' = "started"
    /\ UNCHANGED <<toolVars, impl, storeVars, batchVars, cacheVars, running, cl>>

\* _register_face up to get_db_connection
api_register_face_connect(p) ==
    /\ impl = "api" /\ phase = "serving" /\ EventLoopFree
    /\ cl[p].pc = "idle"
    /\ \E n \in Names, img \in Images \cup {Unreadable}, ok \in BOOLEAN :
         LET req == Request(p, "register", n, img, "connected")
         IN  IF img \in {Unreadable, BadImage}
             THEN /\ Finish(p, req, HTTPError(400), "none")
                  /\ UNCHANGED running
             ELSE IF ~ok
             THEN /\ Finish(p, req, HTTPError(500), "connect")
                  /\ UNCHANGED running
             ELSE /\ cl' = [cl EXCEPT ![p] = req]
                  /\ running' = p
    /\ UNCHANGED <<toolVars, impl, phase, storeVars, batchVars, cacheVars>>

\* SELECT, then UPDATE or INSERT, then commit
api_register_face_write(p) ==
    /\ impl = "api" /\ running = p /\ cl[p].pc = "connected"
    /\ \E ok \in BOOLEAN :
         IF ok /\ CanSave(cl[p].nombre)
         THEN \E moved \in Moves(cl[p].nombre) :
                /\ SaveFace(cl[p].nombre, new_embedding_list(cl[p].image), moved)
                /\ cl' = [cl EXCEPT ![p].pc = "saved", ![p].wrote = TRUE]
                /\ UNCHANGED running
         ELSE /\ Return(p, HTTPError(500), "write")
              /\ running' = 0
              /\ UNCHANGED storeVars
    /\ UNCHANGED <<toolVars, impl, phase, batchVars, cacheVars>>

api_register_face_reload(p) ==
    /\ impl = "api" /\ running = p /\ cl[p].pc = "saved"
    /\ \E ok \in BOOLEAN :
         /\ Publish(api_load_known_faces_from_db(store, ok, Gallery))
         /\ IF ok
            THEN Return(p, Response(200, cl[p].nombre, NoDistance, NoId, 0), "none")
            ELSE Return(p, HTTPError(500), "load")
    /\ running' = 0
    /\ UNCHANGED <<toolVars, impl, phase, storeVars, batchVars, known_faces>>

api_recognize_face_begin(p) ==
    /\ impl = "api" /\ phase = "serving" /\ EventLoopFree
    /\ cl[p].pc = "idle"
    /\ cl' = [cl EXCEPT ![p] = Request(p, "recognize", NoName, NoFace, "await_read")]
    /\ UNCHANGED <<toolVars, impl, phase, storeVars, batchVars, cacheVars, running>>

api_recognize_face_match(p) ==
    /\ impl = "api" /\ phase = "serving" /\ EventLoopFree
    /\ cl[p].pc = "await_read" /\ cl[p].op = "recognize"
    /\ \E img \in Images :
         LET req == Request(p, "recognize", NoName, img, "done")
         IN  IF img = BadImage
             THEN Finish(p, req, HTTPError(400), "none")
             ELSE IF img = NoFace
             THEN Finish(p, req, RecognitionResult(NoFaceName, FALSE, NoDistance), "none")
             ELSE IF known_face_encodings = <<>>
             THEN Finish(p, req, RecognitionResult(NoReferenceName, FALSE, NoDistance), "none")
             ELSE LET r == api_recognize(img, known_face_encodings, known_face_names)
                  IN  Finish(p, req, RecognitionResult(r.name, r.is_known, r.distance), "none")
    /\ UNCHANGED <<toolVars, impl, phase, storeVars, batchVars, cacheVars, running>>

\* delete_face: DELETE ... WHERE nombre, commit, 404 when no row matched
api_delete_face_delete(p) ==
    /\ impl = "api" /\ phase = "serving" /\ EventLoopFree
    /\ cl[p].pc = "idle"
    /\ \E n \in Names, ok \in BOOLEAN :
         LET req == Request(p, "delete", n, NoFace, "deleted")
         IN  IF ~ok
             THEN /\ Finish(p, req, HTTPError(500), "connect")
                  /\ UNCHANGED <<store, running>>
             ELSE IF IndexOfName(store, n) = 0
             THEN /\ Finish(p, req, HTTPError(404), "none")
                  /\ UNCHANGED <<store, running>>
             ELSE /\ store' = delete_by_name(store, n)
                  /\ cl' = [cl EXCEPT ![p] = [req EXCEPT !.wrote = TRUE]]
                  /\ running' = p
    /\ UNCHANGED <<toolVars, impl, phase, nextId, batchVars, cacheVars>>

api_delete_face_reload(p) ==
    /\ impl = "api" /\ running = p /\ cl[p].pc = "deleted"
    /\ \E ok \in BOOLEAN :
         /\ Publish(api_load_known_faces_from_db(store, ok, Gallery))
         /\ IF ok
            THEN Return(p, Response(200, cl[p].nombre, NoDistance, NoId, 0), "none")
            ELSE Return(p, HTTPError(500), "load")
    /\ running' = 0
    /\ UNCHANGED <<toolVars, impl, phase, storeVars, batchVars, known_faces>>

api_list_known_faces(p) ==
    /\ impl = "api" /\ phase = "serving" /\ EventLoopFree
    /\ cl[p].pc = "idle"
    /\ Finish(p, Request(p, "list", NoName, NoFace, "done"),
              Response(200, NoName, NoDistance, NoId, Len(known_face_names)), "none")
    /\ UNCHANGED <<toolVars, impl, phase, storeVars, batchVars, cacheVars, running>>

api_get_status(p) ==
    /\ impl = "api" /\ phase = "serving" /\ EventLoopFree
    /\ cl[p].pc = "idle"
    /\ \E ok \in BOOLEAN :
         Finish(p, Request(p, "status", NoName, NoFace, "done"),
                Response(200, IF ok THEN "Conectado" ELSE "Desconectado",
                         NoDistance, NoId, Len(known_face_names)), "none")
    /\ UNCHANGED <<toolVars, impl, phase, storeVars, batchVars, cacheVars, running>>

api_refresh_db_faces(p) ==
    /\ impl = "api" /\ phase = "serving" /\ EventLoopFree
    /\ cl[p].pc = "idle"
    /\ \E ok \in BOOLEAN :
         LET g == api_load_known_faces_from_db(store, ok, Gallery)
             req == Request(p, "refresh", NoName, NoFace, "done")
         IN  /\ Publish(g)
             /\ IF ok
                THEN Finish(p, req, Response(200, NoName, NoDistance, NoId, Len(g.names)), "none")
                ELSE Finish(p, req, HTTPError(500), "load")
    /\ UNCHANGED <<toolVars, impl, phase, storeVars, batchVars, known_faces, running>>

(***************************************************************************)
(* src/main.py.  load_known_faces iterates over the pair (encodings,       *)
(* names) that app.database.load_known_faces_from_db returns as if it were *)
(* a list of (id, name, embedding) rows, inside a try whose except only    *)
(* prints.                                                                 *)
(***************************************************************************)
\* isinstance(embedding, (list, tuple)): the third element of either list is
\* a numpy array or a str, never a list or a tuple
IsListOrTuple(v) == FALSE

\* `for face_id, name, embedding in db_faces`: unpacking an element that has
\* not exactly three members raises ValueError, which ends the loop
RECURSIVE main_collect(_)
main_collect(parts) ==
    IF parts = <<>> THEN <<>>
    ELSE LET x == Head(parts)
         IN  IF Len(x) # 3 THEN <<>>
             ELSE IF IsListOrTuple(x[3])
             THEN <<[id |-> x[1], name |-> x[2], encoding |-> x[3]]>>
                      \o main_collect(Tail(parts))
             ELSE main_collect(Tail(parts))

\* known_faces after load_known_faces; `ok`: the Store could be read
main_load_known_faces(rows, ok) ==
    IF ~ok THEN <<>>
    ELSE LET g == load_known_faces_from_db(rows)
         IN  main_collect(<<g.encodings, g.names>>)

main_startup_event ==
    /\ impl = "main" /\ phase = "startup"
    /\ \E ok \in BOOLEAN : known_faces' = main_load_known_faces(store, ok)
    /\ phase' = "serving"
    /\ pending' = <<>>
    /\ UNCHANGED <<toolVars, impl, storeVars, registered_count, error_count, reload_count,
                   known_face_encodings, known_face_names, running, cl>>

main_register_face_begin(p) ==
    /\ impl = "main" /\ phase = "serving" /\ EventLoopFree
    /\ cl[p].pc = "idle"
    /\ cl' = [cl EXCEPT ![p] = Request(p, "register", NoName, NoFace, "await_read")]
    /\ UNCHANGED <<toolVars, impl, phase, storeVars, batchVars, cacheVars, running>>

\* load_image_file and face_encodings: 400 when the image cannot be decoded
\* or holds no face
main_register_face_encode(p) ==
    /\ impl = "main" /\ phase = "serving" /\ EventLoopFree
    /\ cl[p].pc = "await_read" /\ cl[p].op = "register"
    /\ \E n \in Names, img \in Images :
         LET req == Request(p, "register", n, img, "encoded")
         IN  IF img \in {BadImage, NoFace}
             THEN /\ Finish(p, req, HTTPError(400), "none")
                  /\ UNCHANGED running
             ELSE /\ cl' = [cl EXCEPT ![p] = req]
                  /\ running' = p
    /\ UNCHANGED <<toolVars, impl, phase, storeVars, batchVars, cacheVars>>

main_register_face_save(p) ==
    /\ impl = "main" /\ running = p /\ cl[p].pc = "encoded"
    /\ \E ok \in BOOLEAN :
         IF ok /\ CanSave(cl[p].nombre)
         THEN \E moved \in Moves(cl[p].nombre) :
                /\ SaveFace(cl[p].nombre, cl[p].image, moved)
                /\ cl' = [cl EXCEPT ![p].pc = "saved", ![p].wrote = TRUE,
                            ![p].person_id = saved_person_id(store, nextId, cl[p].nombre)]
                /\ UNCHANGED running
         ELSE /\ Return(p, HTTPError(500), "write")
              /\ running' = 0
              /\ UNCHANGED storeVars
    /\ UNCHANGED <<toolVars, impl, phase, batchVars, cacheVars>>

\* load_known_faces never raises: the handler returns success whatever the
\* reload did
main_register_face_reload(p) ==
    /\ impl = "main" /\ running = p /\ cl[p].pc = "saved"
    /\ \E ok \in BOOLEAN :
         /\ known_faces' = main_load_known_faces(store, ok)
         /\ Return(p, Response(200, cl[p].nombre, NoDistance, cl[p].person_id, 0),
                   IF ok THEN "none" ELSE "load")
    /\ running' = 0
    /\ UNCHANGED <<toolVars, impl, phase, storeVars, batchVars, known_face_encodings, known_face_names>>

main_recognize_face_begin(p) ==
    /\ impl = "main" /\ phase = "serving" /\ EventLoopFree
    /\ cl[p].pc = "idle"
    /\ cl' = [cl EXCEPT ![p] = Request(p, "recognize", NoName, NoFace, "await_read")]
    /\ UNCHANGED <<toolVars, impl, phase, storeVars, batchVars, cacheVars, running>>

\* the 400 raised when no face is found is raised inside the try whose
\* `except Exception` answers 500
main_recognize_face_match(p) ==
    /\ impl = "main" /\ phase = "serving" /\ EventLoopFree
    /\ cl[p].pc = "await_read" /\ cl[p].op = "recognize"
    /\ \E img \in Images :
         LET req == Request(p, "recognize", NoName, img, "done")
             encs == [i \in 1..Len(known_faces) |-> known_faces[i].encoding]
             d == face_distance(encs, img)
             best == argmin(d)
         IN  IF img \in {BadImage, NoFace}
             THEN Finish(p, req, HTTPError(500), "none")
             ELSE IF known_faces = <<>>
             THEN Finish(p, req, Response(200, UnknownName, NoDistance, NoId, 0), "none")
             ELSE IF d[best] <= FACE_RECOGNITION_TOLERANCE
             THEN Finish(p, req, Response(200, known_faces[best].name, d[best],
                                          known_faces[best].id, 0), "none")
             ELSE Finish(p, req, Response(200, UnknownName, d[best], NoId, 0), "none")
    /\ UNCHANGED <<toolVars, impl, phase, storeVars, batchVars, cacheVars, running>>

\* delete_persona: the 404 raised when no row matched is raised inside the
\* try whose `except Exception` answers 500
main_delete_persona_delete(p) ==
    /\ impl = "main" /\ phase = "serving" /\ EventLoopFree
    /\ cl[p].pc = "idle"
    /\ \E id \in 1..MaxId, ok \in BOOLEAN :
         LET req == [Request(p, "delete", NoName, NoFace, "deleted") EXCEPT !.person_id = id]
         IN  IF ~ok
             THEN /\ Finish(p, req, HTTPError(500), "write")
                  /\ UNCHANGED <<store, running>>
             ELSE IF IndexOfId(store, id) = 0
             THEN /\ Finish(p, req, HTTPError(500), "none")
                  /\ UNCHANGED <<store, running>>
             ELSE /\ store' = delete_face_from_db(store, id)
                  /\ cl' = [cl EXCEPT ![p] = [req EXCEPT !.wrote = TRUE]]
                  /\ running' = p
    /\ UNCHANGED <<toolVars, impl, phase, nextId, batchVars, cacheVars>>

main_delete_persona_reload(p) ==
    /\ impl = "main" /\ running = p /\ cl[p].pc = "deleted"
    /\ \E ok \in BOOLEAN :
         /\ known_faces' = main_load_known_faces(store, ok)
         /\ Return(p, Response(200, NoName, NoDistance, cl[p].person_id, 0),
                   IF ok THEN "none" ELSE "load")
    /\ running' = 0
    /\ UNCHANGED <<toolVars, impl, phase, storeVars, batchVars, known_face_encodings, known_face_names>>

main_list_faces(p) ==
    /\ impl = "main" /\ phase = "serving" /\ EventLoopFree
    /\ cl[p].pc = "idle"
    /\ Finish(p, Request(p, "list", NoName, NoFace, "done"),
              Response(200, NoName, NoDistance, NoId, Len(known_faces)), "none")
    /\ UNCHANGED <<toolVars, impl, phase, storeVars, batchVars, cacheVars, running>>

main_health_check(p) ==
    /\ impl = "main" /\ phase = "serving" /\ EventLoopFree
    /\ cl[p].pc = "idle"
    /\ Finish(p, Request(p, "status", NoName, NoFace, "done"),
              Response(200, "healthy", NoDistance, NoId, Len(known_faces)), "none")
    /\ UNCHANGED <<toolVars, impl, phase, storeVars, batchVars, cacheVars, running>>

(***************************************************************************)
(* Specifications.                                                         *)
(***************************************************************************)

InitOf(variant) ==
    /\ impl = variant
    /\ phase = "startup"
    /\ store = <<>>
    /\ nextId = 1
    /\ pending \in {s \in UNION {[1..n -> Photos] : n \in 0..MaxPhotos} : TRUE}
    /\ registered_count = 0
    /\ error_count = 0
    /\ reload_count = 0
    /\ known_face_encodings = <<>>
    /\ known_face_names = <<>>
    /\ known_faces = <<>>
    /\ running = 0
    /\ cl = [p \in Clients |-> Idle]
    /\ ToolsIdle

AppStartup ==
    app_startup_load \/ app_startup_photo \/ app_startup_reload \/ startup_complete

AppNext ==
    \/ AppStartup
    \/ \E p \in Clients :
         \/ app_register_face_begin(p)
         \/ app_register_face_check(p)
         \/ app_register_face_save(p)
         \/ app_register_face_reload(p)
         \/ app_recognize_face_begin(p)
         \/ app_recognize_face_match(p)
         \/ app_list_known_faces_endpoint(p)
         \/ app_get_status_endpoint(p)
         \/ app_delete_face_by_name_lookup(p)
         \/ app_delete_face_by_name_delete(p)
         \/ app_delete_face_by_name_reload(p)
         \/ app_refresh_db_faces_endpoint(p)
         \/ respond(p)

SpecApp == InitOf("app") /\ [][AppNext]_vars

ApiStartup ==
    api_startup_load \/ api_startup_photo \/ api_startup_done \/ startup_complete

ApiNext ==
    \/ ApiStartup
    \/ \E p \in Clients :
         \/ api_register_face_connect(p)
         \/ api_register_face_write(p)
         \/ api_register_face_reload(p)
         \/ api_recognize_face_begin(p)
         \/ api_recognize_face_match(p)
         \/ api_delete_face_delete(p)
         \/ api_delete_face_reload(p)
         \/ api_list_known_faces(p)
         \/ api_get_status(p)
         \/ api_refresh_db_faces(p)
         \/ respond(p)

SpecApi == InitOf("api") /\ [][ApiNext]_vars

MainNext ==
    \/ main_startup_event
    \/ \E p \in Clients :
         \/ main_register_face_begin(p)
         \/ main_register_face_encode(p)
         \/ main_register_face_save(p)
         \/ main_register_face_reload(p)
         \/ main_recognize_face_begin(p)
         \/ main_recognize_face_match(p)
         \/ main_delete_persona_delete(p)
         \/ main_delete_persona_reload(p)
         \/ main_list_faces(p)
         \/ main_health_check(p)
         \/ respond(p)

SpecMain == InitOf("main") /\ [][MainNext]_vars

(***************************************************************************)
(* src/app/main.py serving concurrent mutations: every client issues one   *)
(* request (register, delete or refresh) and keeps its response.  The      *)
(* server starts with a gallery that reflects the Store: nobody, or one    *)
(* identity enrolled by an earlier run.                                    *)
(***************************************************************************)
respond_keep(p) ==
    /\ cl[p].pc = "done"
    /\ cl' = [cl EXCEPT ![p].pc = "served"]
    /\ UNCHANGED <<toolVars, impl, phase, storeVars, batchVars, cacheVars, running>>

InitAppServing ==
    /\ impl = "app"
    /\ phase = "serving"
    /\ store \in {<<>>, <<Row(1, "carol", 14)>>}
    /\ nextId = Len(store) + 1
    /\ pending = <<>>
    /\ registered_count = 0
    /\ error_count = 0
    /\ reload_count = 0
    /\ known_face_encodings = load_known_faces_from_db(store).encodings
    /\ known_face_names = load_known_faces_from_db(store).names
    /\ known_faces = <<>>
    /\ running = 0
    /\ cl = [p \in Clients |-> Idle]
    /\ ToolsIdle

AppMutationsNext ==
    \E p \in Clients :
       \/ app_register_face_begin(p)
       \/ app_register_face_check(p)
       \/ app_register_face_save(p)
       \/ app_register_face_reload(p)
       \/ app_delete_face_by_name_lookup(p)
       \/ app_delete_face_by_name_delete(p)
       \/ app_delete_face_by_name_reload(p)
       \/ app_refresh_db_faces_endpoint(p)
       \/ respond_keep(p)

SpecAppMutations == InitAppServing /\ [][AppMutationsNext]_vars

(***************************************************************************)
(* A server (src/app/main.py or src/api.py) that serves on top of a Store  *)
(* filled by earlier runs: up to MaxRows identities, some of them without  *)
(* an embedding, loaded into the gallery at startup.  Clients recognize    *)
(* and, in src/app/main.py, enroll.                                        *)
(***************************************************************************)
StoredNames == {"alice", "carol"}
StoredEmbeddings == {0, 12, Null}

RECURSIVE PriorStoresOfLen(_)
PriorStoresOfLen(n) ==
    IF n = 0 THEN {<<>>}
    ELSE {Append(rows, Row(n, nm, e)) :
            rows \in PriorStoresOfLen(n - 1), nm \in StoredNames, e \in StoredEmbeddings}

PriorStores ==
    {rows \in UNION {PriorStoresOfLen(n) : n \in 0..MaxRows} :
       \A i, j \in 1..Len(rows) : i # j => rows[i].nombre # rows[j].nombre}

InitServing ==
    /\ impl \in {"app", "api"}
    /\ phase = "serving"
    /\ store \in PriorStores
    /\ nextId = Len(store) + 1
    /\ pending = <<>>
    /\ registered_count = 0
    /\ error_count = 0
    /\ reload_count = 0
    /\ known_face_encodings = load_known_faces_from_db(store).encodings
    /\ known_face_names = load_known_faces_from_db(store).names
    /\ known_faces = <<>>
    /\ running = 0
    /\ cl = [p \in Clients |-> Idle]
    /\ ToolsIdle

MatchNext ==
    \E p \in Clients :
       \/ app_recognize_face_begin(p)
       \/ app_recognize_face_match(p)
       \/ api_recognize_face_begin(p)
       \/ api_recognize_face_match(p)
       \/ app_register_face_begin(p)
       \/ app_register_face_check(p)
       \/ app_register_face_save(p)
       \/ app_register_face_reload(p)
       \/ respond(p)

SpecMatch == InitServing /\ [][MatchNext]_vars

(***************************************************************************)
(* src/app/main.py from its start, with up to MaxBatch reference photos in *)
(* IMAGE_FOLDER: the startup batch, then recognize, enroll, delete and     *)
(* refresh.                                                                *)
(***************************************************************************)
InitAppBatch ==
    /\ impl = "app"
    /\ phase = "startup"
    /\ store = <<>>
    /\ nextId = 1
    /\ pending \in UNION {[1..n -> Photos] : n \in 0..MaxBatch}
    /\ registered_count = 0
    /\ error_count = 0
    /\ reload_count = 0
    /\ known_face_encodings = <<>>
    /\ known_face_names = <<>>
    /\ known_faces = <<>>
    /\ running = 0
    /\ cl = [p \in Clients |-> Idle]
    /\ ToolsIdle

AppBatchNext ==
    \/ AppStartup
    \/ \E p \in Clients :
         \/ app_recognize_face_begin(p)
         \/ app_recognize_face_match(p)
         \/ app_register_face_begin(p)
         \/ app_register_face_check(p)
         \/ app_register_face_save(p)
         \/ app_register_face_reload(p)
         \/ app_delete_face_by_name_lookup(p)
         \/ app_delete_face_by_name_delete(p)
         \/ app_delete_face_by_name_reload(p)
         \/ app_refresh_db_faces_endpoint(p)
         \/ respond(p)

SpecAppBatch == InitAppBatch /\ [][AppBatchNext]_vars

(***************************************************************************)
(* A server (src/app/main.py or src/api.py) on a Store filled by earlier   *)
(* runs, whose clients refresh and delete: every client issues one request *)
(* and keeps its response.                                                 *)
(***************************************************************************)
RefreshNext ==
    \E p \in Clients :
       \/ app_refresh_db_faces_endpoint(p)
       \/ api_refresh_db_faces(p)
       \/ app_delete_face_by_name_lookup(p)
       \/ app_delete_face_by_name_delete(p)
       \/ app_delete_face_by_name_reload(p)
       \/ api_delete_face_delete(p)
       \/ api_delete_face_reload(p)
       \/ respond_keep(p)

SpecRefresh == InitServing /\ [][RefreshNext]_vars

(***************************************************************************)
(* src/app/database.py: save_face_to_db and delete_face_from_db as single  *)
(* calls.  Each opens a connection, executes its statements, commits and   *)
(* returns; when a step raises, the except clause rolls back and re-raises.*)
(* `fail` is the step that raises, "none" when the call returns.           *)
(***************************************************************************)
TxFailures == {"none", "connect", "execute", "commit"}

\* the rows as the open transaction sees them when it ends: the statements
\* have run unless connecting or executing raised
Uncommitted(before, after, fail) ==
    IF fail \in {"connect", "execute"} THEN before ELSE after

\* a rollback that keeps the changes of the transaction
Rollback_none(before, work) == work

\* conn.rollback(): the changes of the transaction are dropped
Rollback(before, work) == before

\* the rows of the table after the call
Transaction(before, after, fail) ==
    IF fail = "none" THEN after
    ELSE Rollback(before, Uncommitted(before, after, fail))

tx_save_face_to_db(p) ==
    /\ impl = "app" /\ phase = "serving" /\ EventLoopFree
    /\ cl[p].pc = "idle"
    /\ \E n \in Names, e \in Embeddings, fail \in TxFailures :
         /\ CanSave(n)
         /\ \E moved \in Moves(n) :
              store' = Transaction(store, save_face_to_db(store, nextId, n, e, moved), fail)
         \* the sequence of ids does not go back when an INSERT is rolled back
         /\ nextId' = IF IndexOfName(store, n) = 0 /\ fail \in {"none", "commit"}
                       THEN nextId + 1 ELSE nextId
         /\ cl' = [cl EXCEPT ![p] =
                     [Request(p, "register", n, e, "done") EXCEPT
                        !.err = fail, !.wrote = (fail = "none"),
                        !.person_id = IF fail = "none"
                                      THEN saved_person_id(store, nextId, n)
                                      ELSE NoId]]
    /\ UNCHANGED <<toolVars, impl, phase, batchVars, cacheVars, running>>

tx_delete_face_from_db(p) ==
    /\ impl = "app" /\ phase = "serving" /\ EventLoopFree
    /\ cl[p].pc = "idle"
    /\ \E id \in 1..MaxId, fail \in TxFailures :
         /\ store' = Transaction(store, delete_face_from_db(store, id), fail)
         /\ cl' = [cl EXCEPT ![p] =
                     [Request(p, "delete", NoName, NoFace, "done") EXCEPT
                        !.err = fail, !.person_id = id,
                        !.wrote = (fail = "none" /\ IndexOfId(store, id) # 0)]]
    /\ UNCHANGED <<toolVars, impl, phase, nextId, batchVars, cacheVars, running>>

InitTx == InitServing /\ impl = "app"

TxNext ==
    \E p \in Clients :
       tx_save_face_to_db(p) \/ tx_delete_face_from_db(p) \/ respond(p)

SpecTx == InitTx /\ [][TxNext]_vars

(***************************************************************************)
(* The same server, whose clients recognize, list and ask for the status   *)
(* while others refresh and delete.                                        *)
(***************************************************************************)
ReadsNext ==
    \E p \in Clients :
       \/ app_recognize_face_begin(p)
       \/ app_recognize_face_match(p)
       \/ app_list_known_faces_endpoint(p)
       \/ app_get_status_endpoint(p)
       \/ api_recognize_face_begin(p)
       \/ api_recognize_face_match(p)
       \/ api_list_known_faces(p)
       \/ api_get_status(p)
       \/ app_refresh_db_faces_endpoint(p)
       \/ api_refresh_db_faces(p)
       \/ app_delete_face_by_name_lookup(p)
       \/ app_delete_face_by_name_delete(p)
       \/ app_delete_face_by_name_reload(p)
       \/ api_delete_face_delete(p)
       \/ api_delete_face_reload(p)
       \/ respond(p)

SpecReads == InitServing /\ [][ReadsNext]_vars

(***************************************************************************)
(* src/image_utils.py: load_image_with_retry, called by analyze_image of   *)
(* src/check_photos.py.  The file is missing, empty or present; each       *)
(* cv2.imread returns a colour image, a grey image or None, or raises; the *)
(* alternative method (open, np.frombuffer, cv2.imdecode) of the last      *)
(* attempt returns a colour image or None, or raises.  Delays are in       *)
(* tenths of a second.                                                     *)
(***************************************************************************)
MaxAttempts == 3
InitialDelay == 5
BackoffFactor == 2

Files == {"missing", "empty", "present"}
NoImage == "None"
Decoded == {"color", "gray"}
Reads == Decoded \cup {NoImage, "raise"}
Alternatives == {"color", NoImage, "raise"}

\* the three API programs are not running
apiVars == <<impl, phase, storeVars, batchVars, cacheVars, running, cl>>

ApiAbsent ==
    /\ impl = "none"
    /\ phase = "absent"
    /\ store = <<>>
    /\ nextId = 1
    /\ pending = <<>>
    /\ registered_count = 0
    /\ error_count = 0
    /\ reload_count = 0
    /\ known_face_encodings = <<>>
    /\ known_face_names = <<>>
    /\ known_faces = <<>>
    /\ running = 0
    /\ cl = [p \in Clients |-> Idle]

\* a wait after every failed attempt, the last one included
ShouldSleep_always(attempt, max_attempts) == TRUE

\* line 136: if attempt < max_attempts
ShouldSleep(attempt, max_attempts) == attempt < max_attempts

\* the alternative method on every attempt
TriesAlternative_every(attempt, max_attempts) == TRUE

\* line 99: if attempt == max_attempts
TriesAlternative(attempt, max_attempts) == attempt = max_attempts

\* lines 117-124: cv2.cvtColor on an image of three dimensions; a failure
\* of the conversion keeps the image as it was read
Converted(image, convert_to_rgb, cvt) ==
    IF convert_to_rgb /\ image = "color" /\ cvt THEN "RGB" ELSE image

\* lines 47-60: the call with its arguments, info as first built
Call(file, max_attempts, convert_to_rgb) ==
    [pc |-> "start", file |-> file, max_attempts |-> max_attempts,
     convert_to_rgb |-> convert_to_rgb, attempt |-> 0, delay |-> 0,
     attempts |-> 0, success |-> FALSE, errors |-> <<>>, image |-> NoImage,
     reads |-> 0, alternative |-> {}, yielded |-> {}, slept |-> <<>>,
     slept_after |-> {}, result |-> <<>>]

\* lines 62-84
load_image_with_retry_check ==
    /\ loader.pc = "start"
    /\ loader' =
         IF loader.file = "missing"
         THEN [loader EXCEPT !.pc = "returned",
                             !.errors = Append(@, "no existe")]
         ELSE IF loader.file = "empty"
         THEN [loader EXCEPT !.pc = "returned",
                             !.errors = Append(@, "vacio")]
         ELSE [loader EXCEPT !.pc = "loop", !.delay = InitialDelay]
    /\ UNCHANGED <<apiVars, cleaner>>

\* lines 85-136: one turn of the for loop, up to the test that decides on a
\* wait
load_image_with_retry_attempt ==
    /\ loader.pc = "loop"
    /\ loader.attempt < loader.max_attempts
    /\ \E read \in Reads, alt \in Alternatives, cvt \in BOOLEAN :
         LET attempt == loader.attempt + 1
             tried == /\ read = NoImage
                      /\ TriesAlternative(attempt, loader.max_attempts)
             image == IF read \in Decoded THEN read
                      ELSE IF tried /\ alt \in Decoded THEN alt
                      ELSE NoImage
             errs1 == IF read = NoImage THEN Append(loader.errors, "decodificacion")
                      ELSE IF read = "raise" THEN Append(loader.errors, "inesperado")
                      ELSE loader.errors
             errs2 == IF tried /\ alt = "raise"
                      THEN Append(errs1, "alternativo") ELSE errs1
             errs3 == IF /\ image = "color"
                         /\ loader.convert_to_rgb
                         /\ ~cvt
                      THEN Append(errs2, "color") ELSE errs2
         IN loader' =
              [loader EXCEPT
                 !.attempt = attempt,
                 !.attempts = attempt,
                 !.reads = @ + 1,
                 !.alternative = IF tried THEN @ \cup {attempt} ELSE @,
                 !.yielded = IF image # NoImage THEN @ \cup {attempt} ELSE @,
                 !.errors = errs3,
                 !.success = IF image # NoImage THEN TRUE ELSE @,
                 !.image = Converted(image, loader.convert_to_rgb, cvt),
                 !.pc = IF image # NoImage THEN "returned"
                        ELSE IF ShouldSleep(attempt, loader.max_attempts)
                        THEN "sleep" ELSE "loop"]
    /\ UNCHANGED <<apiVars, cleaner>>

\* lines 137-139: time.sleep(delay); delay *= backoff_factor
load_image_with_retry_sleep ==
    /\ loader.pc = "sleep"
    /\ loader' = [loader EXCEPT !.pc = "loop",
                                !.slept = Append(@, loader.delay),
                                !.slept_after = @ \cup {loader.attempt},
                                !.delay = @ * BackoffFactor]
    /\ UNCHANGED <<apiVars, cleaner>>

\* lines 141-144: the loop is over without an image
load_image_with_retry_exhausted ==
    /\ loader.pc = "loop"
    /\ loader.attempt >= loader.max_attempts
    /\ loader' = [loader EXCEPT !.pc = "returned", !.image = NoImage]
    /\ UNCHANGED <<apiVars, cleaner>>

\* src/check_photos.py, analyze_image: the caller reads load_info['success']
\* and, on a failure, copies the errors behind a line that quotes
\* load_info['attempts']
analyze_image ==
    /\ loader.pc = "returned"
    /\ loader' = [loader EXCEPT
                    !.pc = "analyzed",
                    !.result = IF loader.success THEN <<>>
                               ELSE <<"fallo">> \o loader.errors]
    /\ UNCHANGED <<apiVars, cleaner>>

InitLoad ==
    /\ ApiAbsent
    /\ cleaner = NoCall
    /\ \E file \in Files, max_attempts \in 0..MaxAttempts,
          convert_to_rgb \in BOOLEAN :
         loader = Call(file, max_attempts, convert_to_rgb)

LoadNext ==
    \/ load_image_with_retry_check
    \/ load_image_with_retry_attempt
    \/ load_image_with_retry_sleep
    \/ load_image_with_retry_exhausted
    \/ analyze_image

\* the function is straight-line code around a bounded loop: it keeps running
SpecLoad == InitLoad /\ [][LoadNext]_vars /\ WF_vars(LoadNext)

(***************************************************************************)
(* src/app/photo_cleaner.py: cleanup_orphaned_photos over a folder of up   *)
(* to MaxFiles entries.  An entry has a stem, a suffix and a kind; glob    *)
(* yields the entries in any order and os.remove may raise OSError.        *)
(***************************************************************************)
MaxFiles == 4

Suffixes == {".jpg", ".JPEG", ".png", ".txt"}

Entries ==
    {[stem |-> s, suffix |-> x, kind |-> "file"] : s \in Names, x \in Suffixes}
      \cup {[stem |-> "bob", suffix |-> ".jpg", kind |-> "dir"]}

Folders == {d \in SUBSET Entries : Cardinality(d) <= MaxFiles}

\* str.lower() of a suffix
Lower(suffix) == IF suffix = ".JPEG" THEN ".jpeg" ELSE suffix

\* line 23: ['.jpg', '.jpeg', '.png']
ImageSuffixes == {".jpg", ".jpeg", ".png"}

\* line 23: img_path.is_file() and img_path.suffix.lower() in [...]
IsPhoto(f) == f.kind = "file" /\ Lower(f.suffix) \in ImageSuffixes

\* every photo is taken for an orphan
IsOrphan_all(f, database_names) == TRUE

\* lines 24-26: img_path.stem not in database_names
IsOrphan(f, database_names) == f.stem \notin database_names

\* lines 16-22: a path that is no directory returns; glob('*') lists the folder
cleanup_orphaned_photos_begin ==
    /\ cleaner.pc = "start"
    /\ cleaner' = IF cleaner.is_dir
                  THEN [cleaner EXCEPT !.pc = "loop", !.todo = cleaner.files]
                  ELSE [cleaner EXCEPT !.pc = "done"]
    /\ UNCHANGED <<apiVars, loader>>

\* lines 22-32: one entry of the listing
cleanup_orphaned_photos_file ==
    /\ cleaner.pc = "loop"
    /\ \E f \in cleaner.todo, raises \in BOOLEAN :
         cleaner' =
           IF IsPhoto(f) /\ IsOrphan(f, cleaner.database_names)
           THEN IF raises
                THEN [cleaner EXCEPT !.todo = @ \ {f},
                                     !.failed = @ \cup {f}]
                ELSE [cleaner EXCEPT !.todo = @ \ {f},
                                     !.files = @ \ {f},
                                     !.removed = @ \cup {f},
                                     !.cleaned_count = @ + 1]
           ELSE [cleaner EXCEPT !.todo = @ \ {f}]
    /\ UNCHANGED <<apiVars, loader>>

\* line 34: the listing is used up
cleanup_orphaned_photos_end ==
    /\ cleaner.pc = "loop"
    /\ cleaner.todo = {}
    /\ cleaner' = [cleaner EXCEPT !.pc = "done"]
    /\ UNCHANGED <<apiVars, loader>>

InitClean ==
    /\ ApiAbsent
    /\ loader = NoCall
    /\ \E is_dir \in BOOLEAN, database_names \in SUBSET Names :
         \E d \in (IF is_dir THEN Folders ELSE {{}}) :
           cleaner = [pc |-> "start", is_dir |-> is_dir,
                      database_names |-> database_names,
                      before |-> d, files |-> d, todo |-> {},
                      removed |-> {}, failed |-> {}, cleaned_count |-> 0]

CleanNext ==
    \/ cleanup_orphaned_photos_begin
    \/ cleanup_orphaned_photos_file
    \/ cleanup_orphaned_photos_end

SpecClean == InitClean /\ [][CleanNext]_vars

(***************************************************************************)
(* The startup of src/app/main.py and of src/api.py over a Store filled by *)
(* earlier runs and a folder of up to MaxBatch reference photos.           *)
(***************************************************************************)
InitBatch ==
    /\ impl \in {"app", "api"}
    /\ phase = "startup"
    /\ store \in PriorStores
    /\ nextId = Len(store) + 1
    /\ pending \in UNION {[1..n -> Photos] : n \in 0..MaxBatch}
    /\ registered_count = 0
    /\ error_count = 0
    /\ reload_count = 0
    /\ known_face_encodings = <<>>
    /\ known_face_names = <<>>
    /\ known_faces = <<>>
    /\ running = 0
    /\ cl = [p \in Clients |-> Idle]
    /\ ToolsIdle

\* the startup of src/app/main.py alone
InitAppStartup == InitBatch /\ impl = "app"

SpecAppStartup == InitAppStartup /\ [][AppStartup]_vars

BatchNext == AppStartup \/ ApiStartup

SpecBatch == InitBatch /\ [][BatchNext]_vars

Next == AppNext \/ ApiNext \/ MainNext

Init == \E v \in {"app", "api", "main"} : InitOf(v)

Spec == Init /\ [][Next]_vars

(***************************************************************************)
(* Properties.                                                             *)
(***************************************************************************)
NamesOf(names) == {names[i] : i \in 1..Len(names)}
Near(a, b) == Abs(a - b) <= FACE_RECOGNITION_TOLERANCE
Mutations == {"register", "delete", "refresh"}
StoreErrors == {"connect", "write", "load"}
Finished(p) == cl[p].pc = "done"
Served(p) == cl[p].pc = "served"
Finishes(p) == cl[p].pc # "done" /\ cl'[p].pc = "done"
RowIs(nombre, embedding) ==
    \E i \in 1..Len(store) : store[i].nombre = nombre /\ store[i].embedding = embedding

\* C1: an enroll whose embedding is within the tolerance of an entry of the
\* gallery it reads is rejected: no step of it changes the Store or the
\* gallery, and it does not end in success.
C1_DuplicateEnrollRejected ==
    [][\A p \in Clients :
         (/\ cl'[p].op = "register"
          /\ cl'[p] # cl[p]
          /\ cl'[p].image \in Embeddings
          /\ is_face_duplicate(cl'[p].image, known_face_encodings,
                               known_face_names).is_duplicate)
         => /\ store' = store
            /\ known_face_encodings' = known_face_encodings
            /\ known_face_names' = known_face_names
            /\ cl'[p].resp.status # 200]_vars

\* at most one handler is between its cache read and its cache reload
MutexInv == Cardinality({p \in Clients : InFlight(p)}) <= 1

\* p and q enrolled near-duplicate embeddings under two names, and the Store
\* holds both rows
NearDuplicatePair(p, q) ==
    /\ p # q /\ Served(p) /\ Served(q)
    /\ cl[p].op = "register" /\ cl[q].op = "register"
    /\ cl[p].wrote /\ cl[q].wrote
    /\ cl[p].nombre # cl[q].nombre
    /\ Near(cl[p].image, cl[q].image)
    /\ RowIs(cl[p].nombre, cl[p].image) /\ RowIs(cl[q].nombre, cl[q].image)

C3_FailedLoadRetainsGallery ==
    [][\A p \in Clients :
         (cl'[p].err = "load" /\ cl[p].err # "load")
         => /\ known_face_encodings' = known_face_encodings
            /\ known_face_names' = known_face_names
            /\ known_faces' = known_faces]_vars

\* C4: while a recognize request is in progress, every gallery that becomes
\* visible is a complete load of the Store: names and encodings of one load.
C4_ReadersSeeCompleteGallery ==
    [][((\E r \in Clients : cl[r].op = "recognize" /\ cl[r].pc = "await_read")
        /\ Gallery' # Gallery)
       => Gallery' = load_known_faces_from_db(store')]_vars

\* C5: when an enroll returns success the name is in the listed names; when
\* a delete returns success the name is not.
C5_ReadYourWrites ==
    [][\A p \in Clients :
         (Finishes(p) /\ cl'[p].resp.status = 200)
         => /\ cl'[p].op = "register" => cl'[p].nombre \in NamesOf(known_face_names')
            /\ cl'[p].op = "delete" => cl'[p].nombre \notin NamesOf(known_face_names')]_vars

\* C6: when a mutation has reported success (and none is in flight), the
\* gallery holds exactly the Store's identities with an embedding.
C6_CacheStoreCoherence ==
    \A p \in Clients :
       (Finished(p) /\ cl[p].op \in Mutations /\ cl[p].resp.status = 200 /\ running = 0)
       => Gallery = load_known_faces_from_db(store)

\* C7: a mutation during which a Store call failed does not answer success.
C7_StoreFailureSurfaced ==
    \A p \in Clients :
       (Finished(p) /\ cl[p].op \in Mutations /\ cl[p].err \in StoreErrors)
       => cl[p].resp.status # 200

\* the rows the server started with (the clients enroll names of Names)
StartRows == SelectSeq(store, LAMBDA r : r.nombre \notin Names)

FarFromStart(e) == \A i \in 1..Len(StartRows) : ~Near(StartRows[i].embedding, e)

TwoNewEnrolls(p, q) ==
    /\ p # q /\ Served(p) /\ Served(q)
    /\ cl[p].op = "register" /\ cl[q].op = "register"
    /\ cl[p].image \in Embeddings /\ cl[q].image \in Embeddings
    /\ cl[p].nombre # cl[q].nombre
    /\ ~Near(cl[p].image, cl[q].image)
    /\ FarFromStart(cl[p].image) /\ FarFromStart(cl[q].image)
    /\ cl[p].err = "none" /\ cl[q].err = "none"
    /\ \A r \in Clients \ {p, q} : cl[r].pc = "idle"

\* C8: two enrolls under two new names, with embeddings far from each other
\* and from every gallery entry, the Store reachable, no other request: both
\* succeed, both names are in the gallery, the gallery grew by two.
C8_ConcurrentEnrollsBothSucceed ==
    \A p, q \in Clients :
       TwoNewEnrolls(p, q)
       => /\ cl[p].resp.status = 200 /\ cl[q].resp.status = 200
          /\ {cl[p].nombre, cl[q].nombre} \subseteq NamesOf(known_face_names)
          /\ Len(known_face_names) = Len(StartRows) + 2
          /\ Len(known_face_encodings) = Len(StartRows) + 2

\* C8, its case: the two enrolls have been answered, on top of a gallery
\* that held one identity
C8_Witness ==
    \E p, q \in Clients :
       /\ TwoNewEnrolls(p, q)
       /\ Len(StartRows) = 1
       /\ Len(known_face_names) = 3

\* C9: a delete of a name or id that is not in the Store (no Store call
\* failed, no row was deleted) answers 404.
C9_DeleteMissingIsNotFound ==
    \A p \in Clients :
       (Finished(p) /\ cl[p].op = "delete" /\ ~cl[p].wrote /\ cl[p].err = "none")
       => cl[p].resp.status = 404

\* C10: an enroll rejected as a duplicate (a face was found, no Store call
\* failed, nothing was written) answers 409 and names the match.
C10_DuplicateReportedAsConflict ==
    \A p \in Clients :
       (/\ Finished(p) /\ cl[p].op = "register"
        /\ cl[p].image \in Embeddings /\ ~cl[p].wrote /\ cl[p].err = "none")
       => cl[p].resp.status = 409 /\ cl[p].resp.name # NoName

\* the least distance from e to an entry of a non-empty gallery
MinDistance(e, encodings) ==
    CHOOSE m \in {Abs(encodings[i] - e) : i \in 1..Len(encodings)} :
        \A i \in 1..Len(encodings) : m <= Abs(encodings[i] - e)

\* a recognize request that found a face has just been answered
Recognized(p) ==
    Finished(p) /\ cl[p].op = "recognize" /\ cl[p].image \in Embeddings

\* C11: on a non-empty gallery the answer carries the minimum distance; when
\* that distance is <= the tolerance (equality included) the answer is known
\* and names an entry at that distance, otherwise it is 'Desconocido'.
C11_NearestMatch ==
    \A p \in Clients :
       (Recognized(p) /\ known_face_encodings # <<>>)
       => LET m == MinDistance(cl[p].image, known_face_encodings)
              r == cl[p].resp
          IN  /\ r.status = 200
              /\ r.distance = m
              /\ IF m <= FACE_RECOGNITION_TOLERANCE
                 THEN /\ r.is_known
                      /\ \E i \in 1..Len(known_face_names) :
                           /\ known_face_names[i] = r.name
                           /\ Abs(known_face_encodings[i] - cl[p].image) = m
                 ELSE ~r.is_known /\ r.name = UnknownName

\* C11, its case: the nearest entry is not the first one and lies exactly at
\* the tolerance
C11_Witness ==
    \E p \in Clients :
       /\ Recognized(p) /\ Len(known_face_encodings) >= 2
       /\ cl[p].resp.is_known
       /\ cl[p].resp.distance = FACE_RECOGNITION_TOLERANCE
       /\ Abs(known_face_encodings[1] - cl[p].image) > FACE_RECOGNITION_TOLERANCE

\* the rows of the Store, with an embedding, at distance m from e
RowsAtDistance(e, m) ==
    {i \in 1..Len(store) : HasEmbedding(store[i]) /\ Abs(store[i].embedding - e) = m}

\* C12: when the gallery is a load of the Store and recognition names an
\* identity, that identity is, among the identities at the minimum distance,
\* the one enrolled first (the least id).
C12_TieReturnsEarliestEnrolled ==
    \A p \in Clients :
       (/\ Recognized(p) /\ cl[p].resp.is_known
        /\ Gallery = load_known_faces_from_db(store))
       => LET tied == RowsAtDistance(cl[p].image, cl[p].resp.distance)
          IN  \E i \in tied :
                 /\ store[i].nombre = cl[p].resp.name
                 /\ \A j \in tied : store[i].id <= store[j].id

\* the gallery recognize reads is empty
GalleryEmpty ==
    IF impl = "main" THEN known_faces = <<>> ELSE known_face_encodings = <<>>

\* C13: with an empty gallery every recognize of a decodable image, with or
\* without a face in it, is answered normally with is_known = false, no
\* distance and the 'no reference gallery' name.
C13_EmptyGalleryAnswer ==
    \A p \in Clients :
       (/\ Finished(p) /\ cl[p].op = "recognize"
        /\ cl[p].image \in Embeddings \cup {NoFace}
        /\ GalleryEmpty)
       => /\ cl[p].resp.status = 200
          /\ ~cl[p].resp.is_known
          /\ cl[p].resp.distance = NoDistance
          /\ cl[p].resp.name = NoReferenceName

\* the gallery entries whose enrolled vector is e
EntriesEqualTo(e) ==
    {i \in 1..Len(known_face_encodings) : known_face_encodings[i] = e}

\* C14 (as claimed): a query equal to the enrolled vector of an identity is
\* answered with that identity's name, distance 0 and is_known, for every
\* identity of the gallery.
C14_Original ==
    \A p \in Clients :
       Recognized(p)
       => \A i \in EntriesEqualTo(cl[p].image) :
             /\ cl[p].resp.status = 200 /\ cl[p].resp.is_known
             /\ cl[p].resp.distance = 0
             /\ cl[p].resp.name = known_face_names[i]

\* C14 (amended): a query equal to an enrolled vector is answered with
\* distance 0, is_known and the name of the first gallery entry that holds
\* that vector.
C14_ExactQueryIsKnown ==
    \A p \in Clients :
       (Recognized(p) /\ EntriesEqualTo(cl[p].image) # {})
       => /\ cl[p].resp.status = 200 /\ cl[p].resp.is_known
          /\ cl[p].resp.distance = 0
          /\ \E i \in EntriesEqualTo(cl[p].image) :
                /\ cl[p].resp.name = known_face_names[i]
                /\ \A j \in EntriesEqualTo(cl[p].image) : i <= j

\* C14, its case: the query equals the vector two identities of the gallery
\* were enrolled with by the startup batch
C14_Witness ==
    \E p \in Clients :
       /\ Recognized(p)
       /\ Cardinality(EntriesEqualTo(cl[p].image)) = 2
       /\ Len(known_face_encodings) = 2

\* is_face_duplicate and recognize_face agree on e and the current gallery
GuardAgrees(e) ==
    LET d == is_face_duplicate(e, known_face_encodings, known_face_names)
        r == recognize_face(e, known_face_encodings, known_face_names)
    IN  /\ d.is_duplicate <=> r.is_known
        /\ d.is_duplicate => d.name = r.name /\ d.distance = r.distance
        /\ ~d.is_duplicate => d.name = NoName /\ d.distance = NoDistance

\* the step in which the enroll of p runs the duplicate guard on a face
GuardStep(p) ==
    /\ cl[p].op = "register" /\ cl[p].pc = "await_read"
    /\ cl'[p].pc # "await_read" /\ cl'[p].image \in Embeddings

\* C15: on every embedding and every gallery the duplicate guard reports a
\* duplicate, with the same name and distance, exactly when recognition
\* reports is_known; and the enroll handler rejects exactly the faces that
\* recognition knows, naming the same identity at the same distance.
C15_GuardAgreesWithRecognition ==
    /\ [](\A e \in Embeddings : GuardAgrees(e))
    /\ [][\A p \in Clients :
            GuardStep(p)
            => LET r == recognize_face(cl'[p].image, known_face_encodings,
                                       known_face_names)
               IN  IF r.is_known
                   THEN /\ cl'[p].pc = "done"
                        /\ cl'[p].resp.name = r.name
                        /\ cl'[p].resp.distance = r.distance
                   ELSE cl'[p].pc = "checked"]_vars

\* C15, its case: an enroll has been rejected by the guard on a gallery of
\* two identities, the match being the second one
C15_Witness ==
    \E p \in Clients :
       /\ Finished(p) /\ cl[p].op = "register" /\ cl[p].image \in Embeddings
       /\ ~cl[p].wrote /\ cl[p].err = "none"
       /\ Len(known_face_names) = 2
       /\ cl[p].resp.name = known_face_names[2]
       /\ recognize_face(cl[p].image, known_face_encodings, known_face_names).is_known

\* p's refresh has been answered with a count
Refreshed(p) ==
    cl[p].pc \in {"done", "served"} /\ cl[p].op = "refresh" /\ cl[p].resp.status = 200

\* no request of the run has written to the Store
NoStoreMutation == \A r \in Clients : ~cl[r].wrote

\* C16: two refresh calls with no Store mutation around them return the same
\* count, and every refresh that returns a count leaves the gallery with the
\* names of the Store's identities and that count: the second leaves what
\* the first left.
C16_RefreshIdempotent ==
    /\ [](\A p, q \in Clients :
            (Refreshed(p) /\ Refreshed(q) /\ NoStoreMutation)
            => cl[p].resp.count = cl[q].resp.count)
    /\ [][\A q \in Clients :
            (Finishes(q) /\ cl'[q].op = "refresh" /\ cl'[q].resp.status = 200)
            => /\ Gallery' = load_known_faces_from_db(store)
               /\ cl'[q].resp.count = Len(known_face_names')
               /\ \A p \in Clients \ {q} :
                    (Refreshed(p) /\ NoStoreMutation)
                    => Len(known_face_names') = cl[p].resp.count]_vars

\* C16, its case: two refreshes have returned a count on a gallery of two
\* identities
C16_Witness ==
    \E p, q \in Clients :
       /\ p # q /\ Refreshed(p) /\ Refreshed(q) /\ NoStoreMutation
       /\ cl[q].resp.count = 2

\* C17: a recognize of an image without a face is answered normally with the
\* 'no face detected' result: is_known = false and no distance.
C17_NoFaceIsNormalAnswer ==
    \A p \in Clients :
       (Finished(p) /\ cl[p].op = "recognize" /\ cl[p].image = NoFace)
       => /\ cl[p].resp.status = 200
          /\ cl[p].resp.name = NoFaceName
          /\ ~cl[p].resp.is_known
          /\ cl[p].resp.distance = NoDistance

\* C18: no step of an enroll whose image holds no face changes the Store or
\* the gallery, and unless the Store fails the enroll ends with a client
\* error (4xx).
C18_NoFaceEnrollChangesNothing ==
    [][\A p \in Clients :
         (cl'[p].op = "register" /\ cl'[p] # cl[p] /\ cl'[p].image = NoFace
          /\ cl'[p].pc # "idle" /\ cl'[p].nombre # NoName)
         => /\ store' = store
            /\ Gallery' = Gallery
            /\ known_faces' = known_faces
            /\ (cl'[p].pc = "done" /\ cl'[p].err = "none")
               => cl'[p].resp.status \in 400..499]_vars

NoNameTwice(names) == \A i, j \in 1..Len(names) : names[i] = names[j] => i = j

RowNames(rows) == [i \in 1..Len(rows) |-> rows[i].nombre]

\* the step rewrote one row in place or at the end of the scan, keeping its
\* id and name and every other row
UpdatedOneRow ==
    /\ Len(store') = Len(store)
    /\ nextId' = nextId
    /\ \E i \in 1..Len(store), j \in 1..Len(store') :
         /\ store'[j].id = store[i].id
         /\ store'[j].nombre = store[i].nombre
         /\ RemoveAt(store', j) = RemoveAt(store, i)

\* the step added exactly one row, of a name the Store did not hold
InsertedOneRow ==
    /\ Len(store') = Len(store) + 1
    /\ SubSeq(store', 1, Len(store)) = store
    /\ \A i \in 1..Len(store) : store[i].nombre # store'[Len(store')].nombre
    /\ store'[Len(store')].id = nextId
    /\ nextId' = nextId + 1

\* C19: the Store never holds two rows of one name and the gallery never lists
\* a name twice; a step that writes without deleting either rewrites the one
\* row of an existing name, keeping its id, or inserts exactly one row of a
\* new name.
C19_OneRowPerName ==
    /\ [](NoNameTwice(RowNames(store)) /\ NoNameTwice(known_face_names))
    /\ [][(store' # store /\ Len(store') >= Len(store))
          => (UpdatedOneRow \/ InsertedOneRow)]_vars

\* an enroll answered with the id of a row older than the newest one: the
\* name existed and its row was updated
C19_Witness ==
    \E p \in Clients :
      /\ cl[p].op = "register" /\ cl[p].pc = "done" /\ cl[p].resp.status = 200
      /\ cl[p].resp.person_id < nextId - 1
      /\ \E i \in 1..Len(store) :
           store[i].id = cl[p].resp.person_id /\ store[i].nombre = cl[p].nombre
      /\ Len(store) >= 2

\* the names of the identities whose stored embedding is null
NullNames(rows) == {rows[i].nombre : i \in {j \in 1..Len(rows) : rows[j].embedding = Null}}

Matchable(names, rows) == {i \in 1..Len(names) : names[i] \notin NullNames(rows)}

\* C20: whenever a request can be served, no name of the published gallery
\* is that of an identity whose stored embedding is null; a recognize never
\* answers with such a name, and list and status count none.
C20_NullEmbeddingNotPublished ==
    /\ []((phase = "serving" /\ EventLoopFree)
          => \A i \in 1..Len(known_face_names) :
               known_face_names[i] \notin NullNames(store))
    /\ [][\A p \in Clients :
            /\ (cl'[p].op = "recognize" /\ cl'[p].pc = "done" /\ cl[p].pc # "done"
                /\ cl'[p].resp.is_known)
               => cl'[p].resp.name \notin NullNames(store')
            /\ (cl'[p].op \in {"list", "status"} /\ cl'[p].pc = "done"
                /\ cl[p].pc # "done")
               => cl'[p].resp.count
                    = Cardinality(Matchable(known_face_names', store'))]_vars

\* a recognize answers a known name while the Store holds an identity with a
\* null embedding
C20_Witness ==
    /\ NullNames(store) # {}
    /\ \E p \in Clients :
         /\ cl[p].op = "recognize" /\ cl[p].pc = "done"
         /\ cl[p].resp.status = 200 /\ cl[p].resp.is_known
         /\ cl[p].resp.name \in {store[i].nombre : i \in 1..Len(store)}

\* C21: while reference photos remain, no step of the startup batch reloads
\* the gallery, and when startup_event returns it has reloaded the gallery
\* exactly once.
C21_OneReloadAfterBatch ==
    [][/\ (phase = "batch" /\ pending' # <<>>) => reload_count' = reload_count
       /\ (phase = "batch" /\ phase' = "started") => reload_count' = 1]_vars

GalleryNames == {known_face_names[i] : i \in 1..Len(known_face_names)}

\* the photo at the head of the batch cannot be enrolled
FailingItem(f) ==
    \/ f.image \in {Unreadable, BadImage, NoFace}
    \/ is_face_duplicate(f.image, known_face_encodings, known_face_names).is_duplicate

\* C22: every step of the startup batch takes the next photo and stays in
\* the batch until none is left; a photo that cannot be enrolled leaves the
\* Store unchanged; and registered + skipped grows by one exactly for a photo
\* whose name is not in the gallery.
C22_BatchCompletesAndCounts ==
    [][(phase = "batch" /\ pending # <<>>)
       => /\ pending' = Tail(pending)
          /\ phase' = "batch"
          /\ FailingItem(Head(pending)) => store' = store
          /\ (registered_count' + error_count')
               = (registered_count + error_count)
                 + (IF Head(pending).nombre \in GalleryNames THEN 0 ELSE 1)]_vars

\* C23: a step of the startup batch whose photo carries a name of the gallery
\* leaves the Store as it is.
C23_PresentNameNotWritten ==
    [][(phase = "batch" /\ pending # <<>> /\ Head(pending).nombre \in GalleryNames)
       => (store' = store /\ nextId' = nextId)]_vars

\* some entry lies within the tolerance of e
NearSome(e, encodings) == \E i \in 1..Len(encodings) : Near(encodings[i], e)

HoldsRow(rows, nombre, embedding) ==
    \E i \in 1..Len(rows) : rows[i].nombre = nombre /\ rows[i].embedding = embedding

\* C24: no step of the startup batch changes the gallery, and a photo with a
\* face and a name absent from the gallery is registered exactly when its
\* embedding is farther than the tolerance from every entry of that gallery,
\* a failing Store write apart, which counts it as an error.
C24_BatchChecksAgainstPreBatchGallery ==
    [][(phase = "batch" /\ pending # <<>>)
       => LET f == Head(pending)
              checked == f.image \in Embeddings /\ f.nombre \notin GalleryNames
              far == ~NearSome(f.image, known_face_encodings)
          IN  /\ Gallery' = Gallery
              /\ (registered_count' # registered_count) => (checked /\ far)
              /\ (checked /\ ~far)
                 => (store' = store /\ registered_count' = registered_count)
              /\ (checked /\ far)
                 => \/ /\ registered_count' = registered_count + 1
                       /\ HoldsRow(store', f.nombre, f.image)
                    \/ /\ store' = store
                       /\ registered_count' = registered_count
                       /\ error_count' = error_count + 1]_vars

\* the batch registered two photos whose embeddings are within the tolerance
\* of each other
C24_Witness ==
    /\ impl = "app" /\ phase \in {"batch", "started"}
    /\ registered_count = 2 /\ Len(store) = 2
    /\ HasEmbedding(store[1]) /\ HasEmbedding(store[2])
    /\ Abs(store[1].embedding - store[2].embedding) <= FACE_RECOGNITION_TOLERANCE

\* a step of a read handler of p: recognize, list or status
ReadStep(p) ==
    \/ app_recognize_face_begin(p) \/ app_recognize_face_match(p)
    \/ app_list_known_faces_endpoint(p) \/ app_get_status_endpoint(p)
    \/ api_recognize_face_begin(p) \/ api_recognize_face_match(p)
    \/ api_list_known_faces(p) \/ api_get_status(p)
    \/ main_recognize_face_begin(p) \/ main_recognize_face_match(p)
    \/ main_list_faces(p) \/ main_health_check(p)

\* q's enroll, delete or refresh is inside a call of the Store
InStoreCall(q) == running = q /\ cl[q].op \in Mutations

\* C25: while a mutation is inside a call of the Store, every client without
\* a request, or with a recognize waiting for its image, can take a step of a
\* read handler.
C25_ReadsNeverWaitForWriter ==
    \A p, q \in Clients :
      (/\ phase = "serving" /\ p # q /\ InStoreCall(q)
       /\ \/ cl[p].pc = "idle"
          \/ cl[p].pc = "await_read" /\ cl[p].op = "recognize")
      => ENABLED ReadStep(p)

\* the four terminal outcomes of a recognition, read from its response
Known(r) == r.is_known /\ r.name \in GalleryNames /\ r.distance # NoDistance
Unknown(r) == ~r.is_known /\ r.name = UnknownName /\ r.distance # NoDistance
NoFaceDetected(r) == ~r.is_known /\ r.name = NoFaceName /\ r.distance = NoDistance
NoReferenceGallery(r) ==
    ~r.is_known /\ r.name = NoReferenceName /\ r.distance = NoDistance

OutcomesOf(r) ==
    {o \in {"Known", "Unknown", "NoFaceDetected", "NoReferenceGallery"} :
       \/ o = "Known" /\ Known(r)
       \/ o = "Unknown" /\ Unknown(r)
       \/ o = "NoFaceDetected" /\ NoFaceDetected(r)
       \/ o = "NoReferenceGallery" /\ NoReferenceGallery(r)}

\* C26: a recognize whose image decodes is answered 200 with exactly one of
\* Known, Unknown, NoFaceDetected, NoReferenceGallery; Known and Unknown come
\* only from an image with a face and a gallery that is not empty; and the
\* only step after the answer hands it over and changes nothing else.
C26_RecognizeOutcomes ==
    [][\A p \in Clients :
         /\ (Finishes(p) /\ cl'[p].op = "recognize" /\ cl'[p].image # BadImage)
            => LET r == cl'[p].resp
               IN  /\ r.status = 200
                   /\ Cardinality(OutcomesOf(r)) = 1
                   /\ (Known(r) \/ Unknown(r))
                      => (cl'[p].image \in Embeddings /\ known_face_encodings # <<>>)
         /\ (Finished(p) /\ cl[p].op = "recognize")
            => /\ cl'[p].pc \in {"idle", "served"}
               /\ \A q \in Clients \ {p} : cl'[q] = cl[q]
               /\ UNCHANGED <<store, nextId, Gallery, known_faces, phase>>]_vars

\* a recognize of a face far from every entry of a gallery that is not empty
\* has been answered Unknown
C26_Witness ==
    \E p \in Clients :
      /\ Finished(p) /\ cl[p].op = "recognize" /\ cl[p].image \in Embeddings
      /\ known_face_encodings # <<>>
      /\ OutcomesOf(cl[p].resp) = {"Unknown"}

\* C27: when a /register of src/main.py is answered and its reload met no
\* Store error, known_faces holds one entry (id, name, encoding) for every
\* identity of the Store with an embedding, the one just registered included.
C27_MainLoadFillsKnownFaces ==
    [][\A p \in Clients :
         (/\ impl = "main" /\ Finishes(p) /\ cl'[p].op = "register"
          /\ cl'[p].resp.status = 200 /\ cl'[p].err = "none")
         => /\ Len(known_faces') = Len(SelectSeq(store', HasEmbedding))
            /\ \A i \in 1..Len(store') :
                 HasEmbedding(store'[i])
                 => \E k \in 1..Len(known_faces') :
                      known_faces'[k] = [id |-> store'[i].id,
                                         name |-> store'[i].nombre,
                                         encoding |-> store'[i].embedding]]_vars

\* C28: no two identities of the Store have embeddings within the tolerance
\* of each other.
C28_NoNearDuplicatesInStore ==
    \A i, j \in 1..Len(store) :
      (i # j /\ HasEmbedding(store[i]) /\ HasEmbedding(store[j]))
      => ~Near(store[i].embedding, store[j].embedding)

\* C29: an enroll that is answered with an error has written no row.
C29_FailedEnrollLeavesStore ==
    [][\A p \in Clients :
         (Finishes(p) /\ cl'[p].op = "register" /\ cl'[p].resp.status >= 400)
         => ~cl'[p].wrote]_vars

\* the gallery's embedding of a name it lists
OwnEncoding(n) ==
    known_face_encodings[CHOOSE i \in 1..Len(known_face_names) : known_face_names[i] = n]

\* the first of the gallery entries nearest to e
FirstNearest(e) ==
    CHOOSE i \in 1..Len(known_face_encodings) :
      /\ \A j \in 1..Len(known_face_encodings) :
           Abs(known_face_encodings[i] - e) <= Abs(known_face_encodings[j] - e)
      /\ \A j \in 1..(i - 1) :
           Abs(known_face_encodings[j] - e) > Abs(known_face_encodings[i] - e)

\* p's enroll of a face, under a name of the gallery, has just been checked
ReenrollChecked(p) ==
    /\ cl[p].pc = "await_read" /\ cl[p].op = "register" /\ cl'[p] # cl[p]
    /\ cl'[p].image \in Embeddings /\ cl'[p].nombre \in GalleryNames

Rejected(p) ==
    /\ cl'[p].pc = "done" /\ cl'[p].resp.status >= 400 /\ ~cl'[p].wrote
    /\ store' = store /\ Gallery' = Gallery

\* the enroll of p updates the row of an identity the Store holds
UpdatesExisting(p) ==
    /\ cl[p].op = "register" /\ ~cl[p].wrote /\ cl'[p].wrote
    /\ IndexOfName(store, cl[p].nombre) # 0

UpdateOnlyWhenFar ==
    \A p \in Clients :
      UpdatesExisting(p) => ~NearSome(cl[p].image, known_face_encodings)

\* C30 as stated: the rejection of a re-enroll within the tolerance of the
\* name's own embedding names that same name.
C30_Original ==
    [][/\ \A p \in Clients :
            (ReenrollChecked(p)
             /\ Near(cl'[p].image, OwnEncoding(cl'[p].nombre)))
            => (Rejected(p) /\ cl'[p].resp.name = cl'[p].nombre)
       /\ UpdateOnlyWhenFar]_vars

\* C30: a re-enroll within the tolerance of the name's own embedding is
\* rejected, as a duplicate of the first of the nearest gallery entries,
\* which may be another name; an identity's row is updated only when the new
\* embedding is farther than the tolerance from every gallery entry.
C30_ReenrollNearOwnRejected ==
    [][/\ \A p \in Clients :
            (ReenrollChecked(p)
             /\ Near(cl'[p].image, OwnEncoding(cl'[p].nombre)))
            => /\ Rejected(p)
               /\ cl'[p].resp.name = known_face_names[FirstNearest(cl'[p].image)]
       /\ UpdateOnlyWhenFar]_vars

\* a re-enroll of a name of the gallery within the tolerance of its own
\* embedding has been rejected, naming that name
C30_Witness ==
    \E p \in Clients :
      /\ impl = "app" /\ Finished(p) /\ cl[p].op = "register"
      /\ cl[p].image \in Embeddings /\ cl[p].nombre \in GalleryNames
      /\ Near(cl[p].image, OwnEncoding(cl[p].nombre))
      /\ cl[p].resp.status >= 400 /\ cl[p].resp.name = cl[p].nombre

\* entry i of the names and entry i of the encodings are those of one row
EntryOfRow(names, encodings, i, rows) ==
    \E k \in 1..Len(rows) :
      rows[k].nombre = names[i] /\ rows[k].embedding = encodings[i]

\* C31: the names and the encodings of the gallery have the same length; a
\* step that replaces the gallery leaves entry i of both lists taken from one
\* row of the Store; and list and status answer the same count.
C31_NamesAndEncodingsAligned ==
    /\ [](Len(known_face_names) = Len(known_face_encodings))
    /\ [][/\ Gallery' # Gallery
             => \A i \in 1..Len(known_face_names') :
                  /\ i <= Len(known_face_encodings')
                  /\ EntryOfRow(known_face_names', known_face_encodings', i, store')
          /\ \A p \in Clients :
               (Finishes(p) /\ cl'[p].op \in {"list", "status"})
               => /\ cl'[p].resp.count = Len(known_face_names')
                  /\ cl'[p].resp.count = Len(known_face_encodings')]_vars

\* status has been answered with the count of a gallery of two identities
C31_Witness ==
    \E p \in Clients :
      /\ Finished(p) /\ cl[p].op = "status"
      /\ cl[p].resp.count = 2 /\ Len(known_face_names) = 2
      /\ known_face_names[1] # known_face_names[2]

ReadOps == {"recognize", "list", "status"}

\* C32: no step of a recognize, a list or a status changes the Store or the
\* gallery, whatever it answers.
C32_ReadsChangeNothing ==
    [][\A p \in Clients :
         (cl'[p] # cl[p] /\ cl'[p].op \in ReadOps)
         => /\ store' = store /\ nextId' = nextId
            /\ Gallery' = Gallery
            /\ known_faces' = known_faces]_vars

\* a list has been answered on a Store and a gallery that are not empty
C32_Witness ==
    \E p \in Clients :
      /\ Finished(p) /\ cl[p].op = "list" /\ cl[p].resp.count >= 1
      /\ Len(store) >= 1 /\ known_face_names # <<>>

RowsOfId(rows, id) == {k \in 1..Len(rows) : rows[k].id = id}

RowsOfName(rows, nombre) == {k \in 1..Len(rows) : rows[k].nombre = nombre}

\* the write of p's enroll: the id it will answer is that of the one row of
\* the name, a new id for a new name and the row's old id otherwise
EnrollIdIsRowId(p) ==
    (cl[p].op = "register" /\ ~cl[p].wrote /\ cl'[p].wrote)
    => /\ \E k \in 1..Len(store') :
            /\ store'[k].nombre = cl'[p].nombre
            /\ store'[k].id = cl'[p].person_id
       /\ Cardinality(RowsOfId(store', cl'[p].person_id)) = 1
       /\ IF RowsOfName(store, cl[p].nombre) = {}
          THEN RowsOfId(store, cl'[p].person_id) = {}
          ELSE \E k \in RowsOfName(store, cl[p].nombre) :
                 store[k].id = cl'[p].person_id

\* the answer of a successful enroll carries that id
EnrollAnswersRowId(p) ==
    (Finishes(p) /\ cl'[p].op = "register" /\ cl'[p].resp.status = 200)
    => /\ cl'[p].resp.person_id = cl[p].person_id
       /\ \E k \in 1..Len(store') :
            /\ store'[k].id = cl'[p].resp.person_id
            /\ store'[k].nombre = cl'[p].nombre

\* the DELETE by id of p removes the row of that id and no other
DeleteRemovesThatRow(p) ==
    (cl[p].op = "delete" /\ ~cl[p].wrote /\ cl'[p].wrote)
    => /\ RowsOfId(store', cl[p].person_id) = {}
       /\ store' = SelectSeq(store, LAMBDA r : r.id # cl[p].person_id)
       /\ Len(store') = Len(store) - 1

\* C33: a successful enroll answers the id of the Store row of its name, the
\* inserted row's for a new name and the unchanged id for an existing one, and
\* a delete by an id removes exactly the row of that id.
C33_EnrollReturnsRowId ==
    [][\A p \in Clients :
         EnrollIdIsRowId(p) /\ EnrollAnswersRowId(p) /\ DeleteRemovesThatRow(p)]_vars

\* an enroll was answered with an id and a later delete by that id has
\* removed the row, leaving another identity in the Store
C33_Witness ==
    \E p, q \in Clients :
      /\ Served(p) /\ cl[p].op = "register" /\ cl[p].resp.status = 200
      /\ cl[q].op = "delete" /\ cl[q].wrote
      /\ cl[q].person_id = cl[p].resp.person_id
      /\ RowsOfId(store, cl[p].resp.person_id) = {}
      /\ Len(store) >= 1

\* C34: a call of save_face_to_db or delete_face_from_db that raises leaves
\* in the Store exactly the rows it held before the call.
C34_RaisingCallLeavesRows ==
    [][\A p \in Clients :
         (Finishes(p) /\ cl'[p].op \in {"register", "delete"} /\ cl'[p].err # "none")
         => store' = store]_vars

\* save_face_to_db raised at its commit, after its statements had run, and
\* the Store does not hold the row it was writing
C34_Witness ==
    \E p \in Clients :
      /\ Finished(p) /\ cl[p].op = "register" /\ cl[p].err = "commit"
      /\ ~HoldsRow(store, cl[p].nombre, cl[p].image)
      /\ Len(store) >= 1

(***************************************************************************)
(* load_image_with_retry.                                                  *)
(***************************************************************************)
InCall == loader.pc # "none"

Returned == loader.pc \in {"returned", "analyzed"}

WithinAttempts ==
    InCall =>
      /\ loader.reads <= loader.max_attempts
      /\ loader.attempts = loader.reads
      /\ loader.pc = "sleep" => loader.attempt < loader.max_attempts
      /\ loader.slept_after \subseteq 1..loader.reads
      /\ Len(loader.slept) = Cardinality(loader.slept_after)
      /\ Returned =>
           /\ loader.slept_after = 1..(loader.attempts - 1)
           /\ loader.yielded \subseteq {loader.attempts}
           /\ loader.success <=> loader.yielded # {}
           /\ loader.success <=> loader.image # NoImage

\* C35: load_image_with_retry returns, after at most max_attempts reads; it
\* returns at the first attempt that yields an image, has waited once after
\* each attempt but the last one made, reports the attempts made in
\* info['attempts'] and sets info['success'] exactly when it returns an image.
C35_LoadTerminatesWithinAttempts == []WithinAttempts /\ <>Returned

C35_Witness ==
    /\ loader.pc = "returned"
    /\ loader.max_attempts = 3
    /\ loader.attempts = 3
    /\ loader.success
    /\ loader.image = "RGB"
    /\ loader.slept = <<InitialDelay, InitialDelay * BackoffFactor>>

\* C36: for a file that is missing or empty load_image_with_retry reads
\* nothing, waits for nothing and returns None at its first step with
\* success false, attempts 0 and one error; the alternative method is tried
\* on no attempt but the one numbered max_attempts.
C36_MissingOrEmptyNoAttempt ==
    InCall =>
      /\ loader.file \in {"missing", "empty"} =>
           /\ loader.pc \in {"start", "returned", "analyzed"}
           /\ loader.reads = 0
           /\ loader.slept = <<>>
           /\ loader.alternative = {}
           /\ Returned => /\ loader.image = NoImage
                          /\ ~loader.success
                          /\ loader.attempts = 0
                          /\ Len(loader.errors) = 1
      /\ loader.alternative \subseteq {loader.max_attempts}

C36_Witness ==
    /\ loader.pc = "returned"
    /\ loader.file = "empty"
    /\ loader.max_attempts = 3
    /\ loader.errors = <<"vacio">>

(***************************************************************************)
(* cleanup_orphaned_photos.                                                *)
(***************************************************************************)
InClean == cleaner.pc # "none"

OrphanPhotos ==
    {f \in cleaner.before :
       /\ f.kind = "file"
       /\ f.suffix \in {".jpg", ".JPEG", ".png"}
       /\ f.stem \notin cleaner.database_names}

\* C37: cleanup_orphaned_photos removes image files whose stem is not in
\* database_names and nothing else; at its end every such file is removed or
\* has failed to be removed, whatever failed before it; a path that is no
\* directory loses nothing.
C37_RemovesExactlyOrphans ==
    InClean =>
      /\ cleaner.removed \subseteq OrphanPhotos
      /\ cleaner.files = cleaner.before \ cleaner.removed
      /\ cleaner.pc = "done" =>
           /\ cleaner.removed = OrphanPhotos \ cleaner.failed
           /\ cleaner.failed \subseteq OrphanPhotos
           /\ cleaner.cleaned_count = Cardinality(cleaner.removed)
      /\ ~cleaner.is_dir => cleaner.files = cleaner.before /\ cleaner.removed = {}

C37_Witness ==
    /\ cleaner.pc = "done"
    /\ cleaner.database_names = {"alice"}
    /\ cleaner.failed = {[stem |-> "bob", suffix |-> ".jpg", kind |-> "file"]}
    /\ cleaner.removed = {[stem |-> "bob", suffix |-> ".png", kind |-> "file"]}
    /\ cleaner.files = {[stem |-> "bob", suffix |-> ".jpg", kind |-> "file"],
                        [stem |-> "alice", suffix |-> ".jpg", kind |-> "file"],
                        [stem |-> "bob", suffix |-> ".txt", kind |-> "file"]}

====
